---- MODULE Spec2Model ----
(***************************************************************************)
(* Dictation: the Recorder (dictation/core/recorder.py), the coordinator   *)
(* DictationApp (whisper_dictation/__main__.py) and the CLI hotkey handler *)
(* (whisper_dictation/ui/cli_ui.py) as interleaved threads.                *)
(*                                                                         *)
(* Threads: the hotkey listener thread, which calls start() and stop(),    *)
(* one capture thread per session (_record_impl) and one threading.Timer   *)
(* per session when max_duration is set.  A step is one access to an       *)
(* attribute that several threads share, together with the thread-local    *)
(* work that follows it: the interpreter may switch threads between any    *)
(* two such accesses.                                                      *)
(*                                                                         *)
(* The hotkey detectors (_KeyComboHandler, _DoubleCommandHandler) and the  *)
(* keyboard listeners (PynputKeyboardListener, EvdevKeyboardListener) of   *)
(* whisper_dictation/platform/keyboard have specifications of their own,   *)
(* driven by key events and by start() / stop() calls.                     *)
(***************************************************************************)
EXTENDS Integers, Sequences, FiniteSets, TLC

\* ---------------------------------------------------------------- bounds
MaxSessions == 2      \* start() calls that get to spawn a capture thread
MaxFrames   == 1      \* chunks a capture loop counts
Duration    == 2      \* the configured max_duration, in clock ticks

MaxKeyTime  == 11     \* key events are observed for this long (in KeyTick units)
MaxStarts   == 3      \* start() calls made on each keyboard listener
MaxListens  == 2      \* start() calls made on a listener whose device threads run
MaxProcs    == 3      \* dictation processes started on one machine
MaxToggles  == 3      \* hotkey events handled by the menu bar UI
MaxTextLen  == 5      \* characters of a text given to normalize_text

MaxTime  == Duration  \* the clock stops here
Sessions == 1..MaxSessions
None     == 0         \* Python's None for _record_thread / max_duration

\* ---------------------------------------------------------------- threads
Hotkey   == <<"hotkey", 0>>
Callers  == {Hotkey}
Timer(s) == <<"timer", s>>
Timers   == {Timer(s) : s \in Sessions}
Procs    == Callers \cup Timers
NoProc   == <<"none", 0>>

NoCallback  == <<"None", 0>>
AppCallback == <<"on_recording_complete", 0>>  \* DictationApp.on_recording_complete
Callback(k) == <<"callback", k>>               \* the callback of a direct caller
Callbacks   == {Callback(k) : k \in Sessions}

\* ------------------------------------------------------- keyboard: constants
\* time.time() is counted in units of 50 ms
DebounceDelay == 3    \* _KeyComboHandler.debounce_delay = 0.15
DoubleWindow  == 10   \* _DoubleCommandHandler: current_time - last_press_time < 0.5
Epoch         == 20   \* time.time() when the handlers are created

Key1     == "cmd_l"   \* _KeyComboHandler.key1 of the default "cmd_l+alt"
Key2     == "alt"     \* _KeyComboHandler.key2
TapKey   == "cmd_r"   \* _DoubleCommandHandler.key
OtherKey == "a"       \* any key that no handler tracks
ComboKeys == {Key1, Key2, OtherKey}
TapKeys   == {TapKey, OtherKey}
NoEvent   == <<"none", "none", 0>>

\* device paths of /dev/input the evdev listener may find or be given
DevicePaths == {<<>>, <<"event0">>, <<"event0", "event1">>}
HotkeyCb(n) == <<"on_hotkey", n>>   \* the callback of the n-th start() call
NoListenerCall == <<"none", "none", "none">>
MainProcs == 1..MaxProcs
\* the device threads the start() calls can create, one per device
DevThreads == 1..(Len(<<"event0", "event1">>) * MaxListens)
NotRun == <<"none", <<>>>>         \* on_recording_complete has not run

VARIABLES
    \* Recorder attributes
    max_duration,    \* self.max_duration: None or Duration
    recording,       \* self.recording
    stop_flag,       \* self._stop_flag (threading.Event)
    record_thread,   \* self._record_thread: None or the session's thread
    on_complete,     \* self._on_complete: NoCallback or a callback
    \* capture threads, one per session
    tpc,             \* position of the thread in _record_impl
    frames,          \* len(frames)
    stream,          \* "none", "open", "closed"
    cbOf,            \* the callback the thread is running / has run
    \* the hotkey thread and the timers
    pc,              \* position of each thread
    arg,             \* the on_complete argument of start()
    joinee,          \* the thread a stop() is joining
    deadline,        \* when the session's Timer may fire
    nsessions,       \* capture threads created so far
    now,             \* the clock
    \* DictationApp and its UI
    app_is_recording,\* DictationApp.is_recording
    ui_log,          \* lifecycle events the UI received, in order
    gui_is_recording,\* MacOSMenuBarUI.is_recording
    gui_toggles,     \* toggle_recording calls made
    \* history (observations, never read by the program)
    result,          \* how the hotkey thread's last call ended
    target,          \* the session start() had created before the hotkey thread's stop()
    cbCalls,         \* completion-callback invocations per session
    endCause,        \* why the session's capture ended
    stopReq,         \* a stop() was called while the session was live
    flagSetter,      \* the thread that last set the stop flag
    \* the keyboard and time.time()
    clock,           \* time.time(), in units of 50 ms
    held,            \* the keys that are physically down
    kev,             \* the last key event: <<kind, key, callback invocations it made>>
    kseq,            \* flips at every key event
    \* _KeyComboHandler
    key1_pressed,
    key2_pressed,
    combo_triggered,
    last_trigger_time,
    fireTimes,       \* history: the times of the last two callback invocations
    \* _DoubleCommandHandler
    last_press_time,
    dc_is_recording, \* _DoubleCommandHandler.is_recording
    prevPress,       \* history: when the tracked key was pressed last (0: never)
    prevFired,       \* history: what that press fired: "start", "stop", "none"
    \* PynputKeyboardListener
    pl_listener,     \* self._listener: None or the keyboard.Listener
    pl_on_hotkey,    \* self._on_hotkey
    pl_key_handler,  \* self._key_handler: None or the handler and its callback
    pl_running,      \* history: the keyboard.Listener threads started and not stopped
    \* EvdevKeyboardListener
    ev_device_paths,      \* self._device_paths: None or the configured paths
    ev_keyboard_devices,  \* self._keyboard_devices
    ev_listener_threads,  \* self._listener_threads
    ev_stop_flag,         \* self._stop_flag
    ev_on_hotkey,         \* self._on_hotkey
    ev_legacy,            \* <<self._keyboard_device, self._listener_thread>>
    ev_nthreads,          \* device threads created so far
    \* the device threads of EvdevKeyboardListener (_listen) and its stop()
    d_pc,            \* position of each thread in _listen
    d_key1,          \* the thread's key1_pressed
    d_key2,          \* the thread's key2_pressed
    d_active,        \* the thread's combo_active
    d_open,          \* the thread's InputDevice has not been closed
    d_lock,          \* self._lock: None or the thread that holds it
    d_fired,         \* history: the on_hotkey calls the last event a thread took led to
    d_seq,           \* the kseq of the last keyboard event a thread took
    ev_pc,           \* position of the caller of stop(): "idle", "join"
    ev_i,            \* the index of the thread stop() is joining
    \* calls made on the listeners
    lsnCalls,        \* start() calls made so far, per listener
    lsnResult,       \* the last call: <<listener, operation, outcome>>
    \* DictationApp.on_recording_complete: its last run
    steps,           \* the calls it made, in order
    transcript,      \* what transcribe() returned
    injected,        \* the texts given to text_injector.inject_text
    completed,       \* the texts given to ui.on_transcription_complete
    errors,          \* the messages given to ui.on_error
    \* normalize_text, applied to a text and to its own result
    text_in,         \* the argument
    text_out,        \* normalize_text(text_in)
    text_again,      \* normalize_text(text_out)
    text_phase,      \* "input", "normalized", "renormalized"
    \* the two text injectors, each given inj_text
    inj_text,        \* the argument of inject_text
    py_pos,          \* PynputTextInjector: characters the loop has taken
    py_calls,        \* PynputTextInjector: the keyboard_controller.type calls
    py_pc,           \* PynputTextInjector: "typing", "returned", "raised"
    ydo_calls,       \* YdotoolTextInjector: the subprocess.run calls
    ydo_pc,          \* YdotoolTextInjector: "called", "returned", "raised"
    \* Qwen3Transcriber.transcribe
    q_language,      \* the language argument
    q_results,       \* what model.transcribe will return
    q_passed,        \* the language= given to model.transcribe
    q_returned,      \* the value returned
    q_pc,            \* "called", "returned"
    \* the conversion at the end of Recorder._record_impl
    s_frames,        \* the chunks read from the stream
    s_on_complete,   \* whether a completion callback was given
    s_delivered,     \* the buffers given to the callback
    s_pc,            \* "read", "done"
    \* create_default_config
    c_args,          \* package, platform and arguments
    c_config,        \* the DictationConfig returned
    c_pc,            \* "called", "returned"
    \* the processes running main() and the flock on dictation.lock
    main_pc,         \* position of each process in main()
    lock_holders,    \* the processes whose open file holds the exclusive flock
    exit_status,     \* the status each process exited with
    app_created,     \* DictationApp(config) has been called
    lock_refused     \* history: flock raised OSError in the process

recVars   == <<max_duration, recording, stop_flag, record_thread, on_complete>>
thrVars   == <<tpc, frames, stream, cbOf>>
procVars  == <<pc, arg, joinee, deadline, nsessions>>
appVars   == <<app_is_recording, ui_log>>
histVars  == <<result, target, cbCalls, endCause, stopReq, flagSetter>>
envVars   == <<clock, held, kev, kseq>>
comboVars == <<key1_pressed, key2_pressed, combo_triggered, last_trigger_time, fireTimes>>
tapVars   == <<last_press_time, dc_is_recording, prevPress, prevFired>>
keyVars   == <<envVars, comboVars, tapVars>>
pynputVars == <<pl_listener, pl_on_hotkey, pl_key_handler, pl_running>>
evdevVars == <<ev_device_paths, ev_keyboard_devices, ev_listener_threads,
               ev_stop_flag, ev_on_hotkey, ev_legacy, ev_nthreads>>
devVars   == <<d_pc, d_key1, d_key2, d_active, d_open, d_lock, d_fired, d_seq, ev_pc, ev_i>>
lsnVars   == <<pynputVars, evdevVars, lsnCalls, lsnResult, devVars>>
pipeVars  == <<steps, transcript, injected, completed, errors>>
textVars  == <<text_in, text_out, text_again, text_phase>>
injVars   == <<inj_text, py_pos, py_calls, py_pc, ydo_calls, ydo_pc>>
qwenVars  == <<q_language, q_results, q_passed, q_returned, q_pc>>
sampleVars == <<s_frames, s_on_complete, s_delivered, s_pc>>
cfgVars   == <<c_args, c_config, c_pc>>
\* the functions that are checked on their own
funVars   == <<textVars, injVars, qwenVars, sampleVars, cfgVars>>
guiVars   == <<gui_is_recording, gui_toggles>>
lockVars  == <<main_pc, lock_holders, exit_status, app_created, lock_refused>>
\* what the recorder and the coordinator leave alone
sideVars  == <<funVars, guiVars, lockVars>>
\* the recorder and the coordinator, which the keyboard specifications leave alone
coreVars  == <<recVars, thrVars, procVars, now, appVars, histVars, pipeVars, sideVars>>
\* the threads and objects of the application, which the functions leave alone
progVars  == <<recVars, thrVars, procVars, now, appVars, histVars, pipeVars,
               keyVars, lsnVars, guiVars, lockVars>>
\* one application, which the processes competing for the lock leave alone
mainVars  == <<recVars, thrVars, procVars, now, appVars, histVars, pipeVars,
               keyVars, lsnVars, guiVars, funVars>>
vars      == <<recVars, thrVars, procVars, now, appVars, histVars,
               keyVars, lsnVars, pipeVars, funVars, guiVars, lockVars>>

Live(s)    == tpc[s] \notin {"unborn", "done"}
\* the rest state of a thread after a call: the hotkey thread waits for the
\* next event, a Timer thread ends
Rest(p)    == IF p \in Callers THEN "idle" ELSE "dead"

\* the call of the hotkey thread ended with r (calls of timer threads are
\* not recorded)
Returned(p, r) ==
    result' = IF p \in Callers THEN [result EXCEPT ![p] = r] ELSE result

\* EvdevKeyboardListener(key_combination, devices): devices is None or a list
NoPaths == <<"None">>

\* the handlers and the listeners as their __init__ leaves them, no key down
InitKeyboard(paths) ==
    /\ clock = Epoch
    /\ held = {}
    /\ kev = NoEvent
    /\ kseq = 0
    /\ key1_pressed = FALSE
    /\ key2_pressed = FALSE
    /\ combo_triggered = FALSE
    /\ last_trigger_time = 0
    /\ fireTimes = <<0, 0>>
    /\ last_press_time = 0
    /\ dc_is_recording = FALSE
    /\ prevPress = 0
    /\ prevFired = "none"
    /\ pl_listener = None
    /\ pl_on_hotkey = NoCallback
    /\ pl_key_handler = NoCallback
    /\ pl_running = {}
    /\ ev_device_paths = paths
    /\ ev_keyboard_devices = <<>>
    /\ ev_listener_threads = <<>>
    /\ ev_stop_flag = FALSE
    /\ ev_on_hotkey = NoCallback
    /\ ev_legacy = <<"None", None>>
    /\ ev_nthreads = 0
    /\ d_pc = [t \in DevThreads |-> "unborn"]
    /\ d_key1 = [t \in DevThreads |-> FALSE]
    /\ d_key2 = [t \in DevThreads |-> FALSE]
    /\ d_active = [t \in DevThreads |-> FALSE]
    /\ d_open = [t \in DevThreads |-> FALSE]
    /\ d_lock = None
    /\ d_fired = 0
    /\ d_seq = 0
    /\ ev_pc = "idle"
    /\ ev_i = 0
    /\ lsnCalls = [l \in {"pynput", "evdev"} |-> 0]
    /\ lsnResult = NoListenerCall

\* no dictation process has been started
InitLock ==
    /\ main_pc = [p \in MainProcs |-> "none"]
    /\ lock_holders = {}
    /\ exit_status = [p \in MainProcs |-> "none"]
    /\ app_created = [p \in MainProcs |-> FALSE]
    /\ lock_refused = [p \in MainProcs |-> FALSE]

InitCore ==
    /\ InitLock
    /\ max_duration \in {None, Duration}
    /\ recording = FALSE
    /\ stop_flag = FALSE
    /\ record_thread = None
    /\ on_complete = NoCallback
    /\ tpc = [s \in Sessions |-> "unborn"]
    /\ frames = [s \in Sessions |-> 0]
    /\ stream = [s \in Sessions |-> "none"]
    /\ cbOf = [s \in Sessions |-> NoCallback]
    /\ pc = [p \in Procs |-> IF p \in Callers THEN "idle" ELSE "unarmed"]
    /\ arg = [p \in Callers |-> NoCallback]
    /\ joinee = [p \in Procs |-> None]
    /\ deadline = [s \in Sessions |-> 0]
    /\ nsessions = 0
    /\ now = 0
    /\ app_is_recording = FALSE
    /\ ui_log = <<>>
    /\ gui_is_recording = FALSE
    /\ gui_toggles = 0
    /\ result = [p \in Callers |-> "none"]
    /\ target = [p \in Callers |-> None]
    /\ cbCalls = [s \in Sessions |-> 0]
    /\ endCause = [s \in Sessions |-> "none"]
    /\ stopReq = [s \in Sessions |-> FALSE]
    /\ flagSetter = NoProc
    \* on_recording_complete has not run
    /\ steps = <<>>
    /\ transcript = NotRun
    /\ injected = <<>>
    /\ completed = <<>>
    /\ errors = <<>>

\* normalize_text is about to be applied to text
InitText(text) ==
    /\ text_in = text
    /\ text_out = <<>>
    /\ text_again = <<>>
    /\ text_phase = "input"

\* Python's None where the other values are strings
NoneStr == "<None>"

\* inject_text(text) has been called on both injectors
InitInject(text) ==
    /\ inj_text = text
    /\ py_pos = 0
    /\ py_calls = <<>>
    /\ py_pc = "typing"
    /\ ydo_calls = <<>>
    /\ ydo_pc = "called"

\* transcribe(audio, language) has been called; the model will return results
InitQwen(language, results) ==
    /\ q_language = language
    /\ q_results = results
    /\ q_passed = "not called"
    /\ q_returned = <<>>
    /\ q_pc = "called"

\* the capture loop has ended with these chunks in frames
InitSamples(chunks, cb) ==
    /\ s_frames = chunks
    /\ s_on_complete = cb
    /\ s_delivered = <<>>
    /\ s_pc = "read"

\* create_default_config() without arguments, on Linux
DefaultMaxTime == 600
NoArgs ==
    [package |-> "dictation", os_name |-> "Linux", rumps |-> FALSE,
     model |-> NoneStr, hotkey |-> NoneStr, use_double_cmd |-> FALSE,
     languages |-> <<NoneStr>>, max_time |-> DefaultMaxTime, no_gui |-> FALSE]
NoConfig ==
    [model_name |-> "", hotkey |-> "", use_double_cmd |-> FALSE,
     languages |-> <<NoneStr>>, default_language |-> NoneStr,
     max_recording_time |-> None, ui_mode |-> "", os_name |-> ""]

\* create_default_config has been called with args
InitConfig(args) ==
    /\ c_args = args
    /\ c_config = NoConfig
    /\ c_pc = "called"

\* the functions with the arguments they are given first
InitFun ==
    /\ InitText(<<>>)
    /\ InitInject(<<>>)
    /\ InitQwen(NoneStr, <<>>)
    /\ InitSamples(<<>>, FALSE)
    /\ InitConfig(NoArgs)

\* the application before any of its threads has run
InitProg ==
    /\ InitCore
    /\ max_duration = None
    /\ InitKeyboard(NoPaths)

\* DictationApp creates its listener without a device list
Init == InitCore /\ InitKeyboard(NoPaths) /\ InitFun

\* ------------------------------------------------------------ Recorder.start
\* start() is entered only while a capture thread is left to create
StartBudget == nsessions < MaxSessions

RecorderStartCheck_NoGuard(p) ==
    /\ pc[p] = "start_check"
    /\ pc' = [pc EXCEPT ![p] = "start_init"]
    /\ UNCHANGED <<recVars, thrVars, arg, joinee, deadline, nsessions, now, appVars>>
    /\ UNCHANGED histVars
    /\ UNCHANGED <<sideVars, keyVars, lsnVars, pipeVars>>

\* if self.recording: raise RuntimeError(...)
RecorderStartCheck(p) ==
    /\ pc[p] = "start_check"
    /\ IF recording
         THEN /\ pc' = [pc EXCEPT ![p] = Rest(p)]
              /\ Returned(p, "RuntimeError")
         ELSE /\ pc' = [pc EXCEPT ![p] = "start_init"]
              /\ UNCHANGED result
    /\ UNCHANGED <<recVars, thrVars, arg, joinee, deadline, nsessions, now, appVars>>
    /\ UNCHANGED <<target, cbCalls, endCause, stopReq, flagSetter>>
    /\ UNCHANGED <<sideVars, keyVars, lsnVars, pipeVars>>

\* recorder.start(cb), called directly; every call passes a callback of
\* its own, told apart by the session the call would create
CallStart(p, cb) ==
    /\ pc[p] = "idle"
    /\ StartBudget
    /\ cb = Callback(nsessions + 1)
    /\ pc' = [pc EXCEPT ![p] = "start_check"]
    /\ arg' = [arg EXCEPT ![p] = cb]
    /\ Returned(p, "none")
    /\ UNCHANGED <<recVars, thrVars, joinee, deadline, nsessions, now, appVars>>
    /\ UNCHANGED <<target, cbCalls, endCause, stopReq, flagSetter>>
    /\ UNCHANGED <<sideVars, keyVars, lsnVars, pipeVars>>

\* self._on_complete = on_complete; self._stop_flag.clear()
RecorderStartInit(p) ==
    /\ pc[p] = "start_init"
    /\ on_complete' = arg[p]
    /\ stop_flag' = FALSE
    /\ flagSetter' = NoProc
    /\ pc' = [pc EXCEPT ![p] = "start_spawn"]
    /\ UNCHANGED <<max_duration, recording, record_thread, thrVars>>
    /\ UNCHANGED <<arg, joinee, deadline, nsessions, now, appVars>>
    /\ UNCHANGED <<result, target, cbCalls, endCause, stopReq>>
    /\ UNCHANGED <<sideVars, keyVars, lsnVars, pipeVars>>

\* self._record_thread = Thread(target=self._record_impl); .start();
\* if self.max_duration is not None: Timer(self.max_duration, self.stop).start()
RecorderStartSpawn(p) ==
    /\ pc[p] = "start_spawn"
    /\ nsessions < MaxSessions
    /\ LET s == nsessions + 1 IN
        /\ nsessions' = s
        /\ record_thread' = s
        /\ tpc' = [tpc EXCEPT ![s] = "begin"]
        /\ IF max_duration # None
             THEN /\ pc' = [pc EXCEPT ![p] = Rest(p), ![Timer(s)] = "armed"]
                  /\ deadline' = [deadline EXCEPT ![s] = now + max_duration]
             ELSE /\ pc' = [pc EXCEPT ![p] = Rest(p)]
                  /\ UNCHANGED deadline
    /\ Returned(p, "started")
    /\ UNCHANGED <<max_duration, recording, stop_flag, on_complete>>
    /\ UNCHANGED <<frames, stream, cbOf, arg, joinee, now, appVars>>
    /\ UNCHANGED <<target, cbCalls, endCause, stopReq, flagSetter>>
    /\ UNCHANGED <<sideVars, keyVars, lsnVars, pipeVars>>

\* ------------------------------------------------------------- Recorder.stop
\* what a call of stop() by p records: the session created last, and that
\* the live sessions have been asked to stop
StopCalled(p) ==
    /\ target' = IF p \in Callers THEN [target EXCEPT ![p] = nsessions] ELSE target
    /\ stopReq' = [s \in Sessions |-> stopReq[s] \/ Live(s)]

\* recorder.stop(), called directly
CallStop(p) ==
    /\ pc[p] = "idle"
    /\ pc' = [pc EXCEPT ![p] = "stop_check"]
    /\ Returned(p, "none")
    /\ StopCalled(p)
    /\ UNCHANGED <<recVars, thrVars, arg, joinee, deadline, nsessions, now, appVars>>
    /\ UNCHANGED <<cbCalls, endCause, flagSetter>>
    /\ UNCHANGED <<sideVars, keyVars, lsnVars, pipeVars>>

\* threading.Timer(self.max_duration, self.stop): the timer thread calls
\* stop() once max_duration has passed
TimerFire(s) ==
    /\ pc[Timer(s)] = "armed"
    /\ now >= deadline[s]
    /\ pc' = [pc EXCEPT ![Timer(s)] = "stop_check"]
    /\ StopCalled(Timer(s))
    /\ deadline' = [deadline EXCEPT ![s] = 0]
    /\ UNCHANGED <<recVars, thrVars, arg, joinee, nsessions, now, appVars>>
    /\ UNCHANGED <<result, cbCalls, endCause, flagSetter>>
    /\ UNCHANGED <<sideVars, keyVars, lsnVars, pipeVars>>

RecorderStopCheck_NoGuard(p) ==
    /\ pc[p] = "stop_check"
    /\ pc' = [pc EXCEPT ![p] = "stop_set"]
    /\ UNCHANGED <<recVars, thrVars, arg, joinee, deadline, nsessions, now, appVars>>
    /\ UNCHANGED histVars
    /\ UNCHANGED <<sideVars, keyVars, lsnVars, pipeVars>>

\* if not self.recording: return
RecorderStopCheck(p) ==
    /\ pc[p] = "stop_check"
    /\ IF ~recording
         THEN /\ pc' = [pc EXCEPT ![p] = Rest(p)]
              /\ Returned(p, "noop")
         ELSE /\ pc' = [pc EXCEPT ![p] = "stop_set"]
              /\ UNCHANGED result
    /\ UNCHANGED <<recVars, thrVars, arg, joinee, deadline, nsessions, now, appVars>>
    /\ UNCHANGED <<target, cbCalls, endCause, stopReq, flagSetter>>
    /\ UNCHANGED <<sideVars, keyVars, lsnVars, pipeVars>>

\* self._stop_flag.set()
RecorderStopSet(p) ==
    /\ pc[p] = "stop_set"
    /\ stop_flag' = TRUE
    /\ flagSetter' = p
    /\ pc' = [pc EXCEPT ![p] = "stop_test"]
    /\ UNCHANGED <<max_duration, recording, record_thread, on_complete, thrVars>>
    /\ UNCHANGED <<arg, joinee, deadline, nsessions, now, appVars>>
    /\ UNCHANGED <<result, target, cbCalls, endCause, stopReq>>
    /\ UNCHANGED <<sideVars, keyVars, lsnVars, pipeVars>>

\* if self._record_thread is not None:
RecorderStopTest(p) ==
    /\ pc[p] = "stop_test"
    /\ IF record_thread # None
         THEN /\ pc' = [pc EXCEPT ![p] = "stop_join"]
              /\ UNCHANGED result
         ELSE /\ pc' = [pc EXCEPT ![p] = Rest(p)]
              /\ Returned(p, "stopped")
    /\ UNCHANGED <<recVars, thrVars, arg, joinee, deadline, nsessions, now, appVars>>
    /\ UNCHANGED <<target, cbCalls, endCause, stopReq, flagSetter>>
    /\ UNCHANGED <<sideVars, keyVars, lsnVars, pipeVars>>

\* self._record_thread.join(): the attribute is read again; None has no join
RecorderStopJoin(p) ==
    /\ pc[p] = "stop_join"
    /\ IF record_thread # None
         THEN /\ pc' = [pc EXCEPT ![p] = "stop_wait"]
              /\ joinee' = [joinee EXCEPT ![p] = record_thread]
              /\ UNCHANGED result
         ELSE /\ pc' = [pc EXCEPT ![p] = Rest(p)]
              /\ Returned(p, "AttributeError")
              /\ UNCHANGED joinee
    /\ UNCHANGED <<recVars, thrVars, arg, deadline, nsessions, now, appVars>>
    /\ UNCHANGED <<target, cbCalls, endCause, stopReq, flagSetter>>
    /\ UNCHANGED <<sideVars, keyVars, lsnVars, pipeVars>>

\* join() returns once the joined thread has ended; self._record_thread = None
RecorderStopClear(p) ==
    /\ pc[p] = "stop_wait"
    /\ tpc[joinee[p]] = "done"
    /\ record_thread' = None
    /\ pc' = [pc EXCEPT ![p] = Rest(p)]
    /\ joinee' = [joinee EXCEPT ![p] = None]
    /\ Returned(p, "stopped")
    /\ UNCHANGED <<max_duration, recording, stop_flag, on_complete, thrVars>>
    /\ UNCHANGED <<arg, deadline, nsessions, now, appVars>>
    /\ UNCHANGED <<target, cbCalls, endCause, stopReq, flagSetter>>
    /\ UNCHANGED <<sideVars, keyVars, lsnVars, pipeVars>>

\* --------------------------------------------------- Recorder._record_impl
\* self.recording = True
RecordBegin(s) ==
    /\ tpc[s] = "begin"
    /\ recording' = TRUE
    /\ tpc' = [tpc EXCEPT ![s] = "open"]
    /\ UNCHANGED <<max_duration, stop_flag, record_thread, on_complete>>
    /\ UNCHANGED <<frames, stream, cbOf, procVars, now, appVars, histVars>>
    /\ UNCHANGED <<sideVars, keyVars, lsnVars, pipeVars>>

\* p = pyaudio.PyAudio(); stream = p.open(...): either may raise, and the
\* exception is caught by the outer handler
RecordOpen(s) ==
    /\ tpc[s] = "open"
    /\ \/ /\ stream' = [stream EXCEPT ![s] = "open"]
          /\ tpc' = [tpc EXCEPT ![s] = "loop"]
          /\ UNCHANGED endCause
       \/ /\ tpc' = [tpc EXCEPT ![s] = "finally"]
          /\ endCause' = [endCause EXCEPT ![s] = "openfail"]
          /\ UNCHANGED stream
    /\ UNCHANGED <<recVars, frames, cbOf, procVars, now, appVars>>
    /\ UNCHANGED <<result, target, cbCalls, stopReq, flagSetter>>
    /\ UNCHANGED <<sideVars, keyVars, lsnVars, pipeVars>>

\* while not self._stop_flag.is_set():
\*     data = stream.read(...); frames.append(data)   or   except: break
RecordLoop(s) ==
    /\ tpc[s] = "loop"
    /\ IF stop_flag
         THEN /\ tpc' = [tpc EXCEPT ![s] = "close"]
              /\ endCause' = [endCause EXCEPT ![s] = "flag"]
              /\ UNCHANGED frames
         ELSE \/ /\ frames' = [frames EXCEPT ![s] =
                                   IF @ < MaxFrames THEN @ + 1 ELSE @]
                 /\ UNCHANGED <<tpc, endCause>>
              \/ /\ tpc' = [tpc EXCEPT ![s] = "close"]
                 /\ endCause' = [endCause EXCEPT ![s] = "error"]
                 /\ UNCHANGED frames
    /\ UNCHANGED <<recVars, stream, cbOf, procVars, now, appVars>>
    /\ UNCHANGED <<result, target, cbCalls, stopReq, flagSetter>>
    /\ UNCHANGED <<sideVars, keyVars, lsnVars, pipeVars>>

\* stream.stop_stream(); stream.close(); p.terminate()
RecordClose(s) ==
    /\ tpc[s] = "close"
    /\ stream' = [stream EXCEPT ![s] = "closed"]
    /\ tpc' = [tpc EXCEPT ![s] = "deliver"]
    /\ UNCHANGED <<recVars, frames, cbOf, procVars, now, appVars, histVars>>
    /\ UNCHANGED <<sideVars, keyVars, lsnVars, pipeVars>>

RecordDeliver_Always(s) ==
    /\ tpc[s] = "deliver"
    /\ tpc' = [tpc EXCEPT ![s] = "callback"]
    /\ cbCalls' = [cbCalls EXCEPT ![s] = @ + 1]
    /\ cbOf' = [cbOf EXCEPT ![s] = on_complete]
    /\ UNCHANGED <<recVars, frames, stream, procVars, now, appVars>>
    /\ UNCHANGED <<result, target, endCause, stopReq, flagSetter>>
    /\ UNCHANGED <<sideVars, keyVars, lsnVars, pipeVars>>

RecordDeliver_Again(s) ==
    /\ tpc[s] = "deliver"
    /\ on_complete # NoCallback /\ frames[s] > 0
    /\ cbCalls' = [cbCalls EXCEPT ![s] = @ + 1]
    /\ cbOf' = [cbOf EXCEPT ![s] = on_complete]
    /\ UNCHANGED <<recVars, tpc, frames, stream, procVars, now, appVars>>
    /\ UNCHANGED <<result, target, endCause, stopReq, flagSetter>>
    /\ UNCHANGED <<sideVars, keyVars, lsnVars, pipeVars>>

\* if self._on_complete is not None and len(audio_data) > 0:
\*     self._on_complete(audio_data)
RecordDeliver(s) ==
    /\ tpc[s] = "deliver"
    /\ IF on_complete # NoCallback /\ frames[s] > 0
         THEN /\ tpc' = [tpc EXCEPT ![s] = "callback"]
              /\ cbCalls' = [cbCalls EXCEPT ![s] = @ + 1]
              /\ cbOf' = [cbOf EXCEPT ![s] = on_complete]
         ELSE /\ tpc' = [tpc EXCEPT ![s] = "finally"]
              /\ UNCHANGED <<cbCalls, cbOf>>
    /\ UNCHANGED <<recVars, frames, stream, procVars, now, appVars>>
    /\ UNCHANGED <<result, target, endCause, stopReq, flagSetter>>
    /\ UNCHANGED <<sideVars, keyVars, lsnVars, pipeVars>>

\* ---------------------------------------------------------- normalize_text
\* a text is a sequence of characters
Whitespace   == {" ", "\t"}
Punctuation  == {".", ",", "!", "?", ";", ":"}
ClosingMarks == {")", "]", "\"", "'"}
OpeningMarks == {"(", "[", "\"", "'"}
IsSpace(c)   == c \in Whitespace

\* the characters of t at the positions in K
Pick(t, K) ==
    LET F[i \in 0..Len(t)] ==
            IF i = 0 THEN <<>>
            ELSE IF i \in K THEN Append(F[i - 1], t[i]) ELSE F[i - 1]
    IN  F[Len(t)]

\* the first position after i, and the last before i, that holds no
\* whitespace (0: there is none)
NextMark(t, i) ==
    LET J == {j \in (i + 1)..Len(t) : ~IsSpace(t[j])}
    IN  IF J = {} THEN 0 ELSE CHOOSE j \in J : \A k \in J : j <= k
PrevMark(t, i) ==
    LET J == {j \in 1..(i - 1) : ~IsSpace(t[j])}
    IN  IF J = {} THEN 0 ELSE CHOOSE j \in J : \A k \in J : j >= k

\* a strip() that removes nothing
Strip_None(t) == t

\* str.strip()
Strip(t) ==
    LET first == NextMark(t, 0)
        last  == PrevMark(t, Len(t) + 1)
    IN  IF first = 0 THEN <<>> ELSE SubSeq(t, first, last)

\* a substitution of " +" that changes nothing
CollapseSpaces_Keep(t) == t

\* re.sub(r" +", " ", text)
CollapseSpaces(t) ==
    Pick(t, {i \in 1..Len(t) : ~(t[i] = " " /\ i > 1 /\ t[i - 1] = " ")})

\* re.sub(r"\s([...])", r"\1", text): only the whitespace character next to
\* the character of S goes
DropSpaceBefore_One(t, S) ==
    Pick(t, {i \in 1..Len(t) :
                ~(IsSpace(t[i]) /\ i < Len(t) /\ t[i + 1] \in S)})

\* re.sub(r"\s+([...])", r"\1", text): a run of whitespace goes when a
\* character of S follows it
DropSpaceBefore(t, S) ==
    Pick(t, {i \in 1..Len(t) :
                ~(IsSpace(t[i]) /\ NextMark(t, i) # 0 /\ t[NextMark(t, i)] \in S)})

\* the whitespace after a character of S stays
DropSpaceAfter_None(t, S) == t

\* re.sub(r"([...])\s+", r"\1", text): a run of whitespace goes when it
\* follows a character of S
DropSpaceAfter(t, S) ==
    Pick(t, {i \in 1..Len(t) :
                ~(IsSpace(t[i]) /\ PrevMark(t, i) # 0 /\ t[PrevMark(t, i)] \in S)})

\* re.sub(r"([...])(?=[^\s])", r"\1 ", text): a character of S that another
\* character follows directly gets a space after it
SpaceAfter(t, S) ==
    LET F[i \in 0..Len(t)] ==
            IF i = 0 THEN <<>>
            ELSE IF t[i] \in S /\ i < Len(t) /\ ~IsSpace(t[i + 1])
                   THEN F[i - 1] \o <<t[i], " ">>
                   ELSE Append(F[i - 1], t[i])
    IN  F[Len(t)]

normalize_text(text) ==
    IF text = <<>> THEN text
    ELSE LET t1 == Strip(text)
             t2 == CollapseSpaces(t1)
             t3 == DropSpaceBefore(t2, Punctuation)
             t4 == SpaceAfter(t3, Punctuation)
             t5 == CollapseSpaces(t4)
             t6 == DropSpaceBefore(t5, ClosingMarks)
         IN  DropSpaceAfter(t6, OpeningMarks)

\* ----------------------------------------- DictationApp.on_recording_complete
\* what the speech model makes of a recording; transcribe() returns it
\* stripped, or raises
ModelOutputs == {<<>>, <<" ">>, <<"a">>, <<"a", " ", ".">>, <<"a", ".", "b">>}
TranscribeOutcomes ==
    {<<"return", Strip(m)>> : m \in ModelOutputs} \cup {<<"raise", <<>>>>}

\* one run of on_recording_complete: the calls made, the texts injected, the
\* texts and the messages reported to the UI, and the UI's lifecycle event
Ran(out, calls, inj, done, errs, event) ==
    /\ transcript' = out
    /\ steps' = calls
    /\ injected' = inj
    /\ completed' = done
    /\ errors' = errs
    /\ ui_log' = Append(ui_log, event)

OnRecordingComplete_Raw(out) ==
    LET text == out[2]
        norm == IF text # <<>> THEN normalize_text(text) ELSE text
    IN  IF out[1] = "raise"
          THEN Ran(out, <<"transcribe", "on_error">>,
                   <<>>, <<>>, <<"Transcription error">>, "error")
          ELSE IF norm # <<>>
                 THEN Ran(out, <<"transcribe", "normalize_text", "inject_text",
                                 "on_transcription_complete">>,
                          <<text>>, <<norm>>, <<>>, "transcription_complete")
                 ELSE Ran(out, <<"transcribe", "on_error">>,
                          <<>>, <<>>, <<"No text transcribed">>, "error")

OnRecordingComplete_Propagate(out) ==
    LET text == out[2]
        norm == IF text # <<>> THEN normalize_text(text) ELSE text
    IN  IF out[1] = "raise"
          THEN Ran(out, <<"transcribe", "raise">>, <<>>, <<>>, <<>>, "none")
          ELSE IF norm # <<>>
                 THEN Ran(out, <<"transcribe", "normalize_text", "inject_text",
                                 "on_transcription_complete">>,
                          <<norm>>, <<norm>>, <<>>, "transcription_complete")
                 ELSE Ran(out, <<"transcribe", "on_error">>,
                          <<>>, <<>>, <<"No text transcribed">>, "error")

OnRecordingComplete_InjectEmpty(out) ==
    LET text == out[2]
        norm == IF text # <<>> THEN normalize_text(text) ELSE text
    IN  IF out[1] = "raise"
          THEN Ran(out, <<"transcribe", "on_error">>,
                   <<>>, <<>>, <<"Transcription error">>, "error")
          ELSE Ran(out, <<"transcribe", "normalize_text", "inject_text",
                          "on_transcription_complete">>,
                   <<norm>>, <<norm>>, <<>>, "transcription_complete")

\* text = self.transcriber.transcribe(audio_data, self.current_language)
\* if text: text = normalize_text(text)
\* if text: inject_text(text); ui.on_transcription_complete(text)
\* else: ui.on_error("No text transcribed")
\* except Exception as e: ui.on_error(f"Transcription error: {e}")
OnRecordingComplete(out) ==
    LET text == out[2]
        norm == IF text # <<>> THEN normalize_text(text) ELSE text
    IN  IF out[1] = "raise"
          THEN Ran(out, <<"transcribe", "on_error">>,
                   <<>>, <<>>, <<"Transcription error">>, "error")
          ELSE IF norm # <<>>
                 THEN Ran(out, <<"transcribe", "normalize_text", "inject_text",
                                 "on_transcription_complete">>,
                          <<norm>>, <<norm>>, <<>>, "transcription_complete")
                 ELSE Ran(out, <<"transcribe", "on_error">>,
                          <<>>, <<>>, <<"No text transcribed">>, "error")

\* the callback runs in the capture thread and returns (an exception of a
\* callback is caught by _record_impl)
RecordCallback(s) ==
    /\ tpc[s] = "callback"
    /\ tpc' = [tpc EXCEPT ![s] = "finally"]
    /\ IF cbOf[s] = AppCallback
         THEN \E out \in TranscribeOutcomes : OnRecordingComplete(out)
         ELSE UNCHANGED <<ui_log, pipeVars>>
    /\ UNCHANGED <<recVars, frames, stream, cbOf, procVars, now>>
    /\ UNCHANGED <<app_is_recording, histVars>>
    /\ UNCHANGED <<sideVars, keyVars, lsnVars>>

RecordFinally_StillRecording(s) ==
    /\ tpc[s] = "finally"
    /\ tpc' = [tpc EXCEPT ![s] = "done"]
    /\ frames' = [frames EXCEPT ![s] = 0]
    /\ stopReq' = [stopReq EXCEPT ![s] = FALSE]
    /\ UNCHANGED <<recVars, stream, cbOf, procVars, now, appVars>>
    /\ UNCHANGED <<result, target, cbCalls, endCause, flagSetter>>
    /\ UNCHANGED <<sideVars, keyVars, lsnVars, pipeVars>>

\* finally: self.recording = False; the thread ends and its frames go
RecordFinally(s) ==
    /\ tpc[s] = "finally"
    /\ recording' = FALSE
    /\ tpc' = [tpc EXCEPT ![s] = "done"]
    /\ frames' = [frames EXCEPT ![s] = 0]
    /\ stopReq' = [stopReq EXCEPT ![s] = FALSE]
    /\ UNCHANGED <<max_duration, stop_flag, record_thread, on_complete>>
    /\ UNCHANGED <<stream, cbOf, procVars, now, appVars>>
    /\ UNCHANGED <<result, target, cbCalls, endCause, flagSetter>>
    /\ UNCHANGED <<sideVars, keyVars, lsnVars, pipeVars>>

\* ---------------------------------------------------------------- the clock
Tick ==
    /\ now < MaxTime
    /\ now' = now + 1
    /\ UNCHANGED <<recVars, thrVars, procVars, appVars, histVars>>
    /\ UNCHANGED <<sideVars, keyVars, lsnVars, pipeVars>>

\* ------------------------------------------------- CLIUI and DictationApp
\* CLIUI._on_hotkey: if self.recorder.is_recording(): stop else: start
OnHotkey(p) ==
    /\ pc[p] = "idle"
    /\ IF recording
         THEN pc' = [pc EXCEPT ![p] = "app_stop_check"]
         ELSE /\ app_is_recording \/ StartBudget
              /\ pc' = [pc EXCEPT ![p] = "app_start_check"]
    /\ Returned(p, "none")
    /\ UNCHANGED <<recVars, thrVars, arg, joinee, deadline, nsessions, now, appVars>>
    /\ UNCHANGED <<target, cbCalls, endCause, stopReq, flagSetter>>
    /\ UNCHANGED <<sideVars, keyVars, lsnVars, pipeVars>>

AppStartCheck_NoGuard(p) ==
    /\ pc[p] = "app_start_check"
    /\ pc' = [pc EXCEPT ![p] = "app_start_set"]
    /\ UNCHANGED <<recVars, thrVars, arg, joinee, deadline, nsessions, now, appVars>>
    /\ UNCHANGED histVars
    /\ UNCHANGED <<sideVars, keyVars, lsnVars, pipeVars>>

\* DictationApp.on_start_recording: if self.is_recording: return
AppStartCheck(p) ==
    /\ pc[p] = "app_start_check"
    /\ IF app_is_recording
         THEN /\ pc' = [pc EXCEPT ![p] = Rest(p)]
              /\ Returned(p, "start_ignored")
         ELSE /\ pc' = [pc EXCEPT ![p] = "app_start_set"]
              /\ UNCHANGED result
    /\ UNCHANGED <<recVars, thrVars, arg, joinee, deadline, nsessions, now, appVars>>
    /\ UNCHANGED <<target, cbCalls, endCause, stopReq, flagSetter>>
    /\ UNCHANGED <<sideVars, keyVars, lsnVars, pipeVars>>

\* self.is_recording = True; self.ui.on_recording_start();
\* self.recorder.start(self.on_recording_complete)
AppStartSet(p) ==
    /\ pc[p] = "app_start_set"
    /\ app_is_recording' = TRUE
    /\ ui_log' = Append(ui_log, "recording_start")
    /\ arg' = [arg EXCEPT ![p] = AppCallback]
    /\ pc' = [pc EXCEPT ![p] = "start_check"]
    /\ UNCHANGED <<recVars, thrVars, joinee, deadline, nsessions, now, histVars>>
    /\ UNCHANGED <<sideVars, keyVars, lsnVars, pipeVars>>

\* DictationApp.on_stop_recording: if not self.is_recording: return
AppStopCheck(p) ==
    /\ pc[p] = "app_stop_check"
    /\ IF ~app_is_recording
         THEN /\ pc' = [pc EXCEPT ![p] = Rest(p)]
              /\ Returned(p, "stop_ignored")
         ELSE /\ pc' = [pc EXCEPT ![p] = "app_stop_set"]
              /\ UNCHANGED result
    /\ UNCHANGED <<recVars, thrVars, arg, joinee, deadline, nsessions, now, appVars>>
    /\ UNCHANGED <<target, cbCalls, endCause, stopReq, flagSetter>>
    /\ UNCHANGED <<sideVars, keyVars, lsnVars, pipeVars>>

\* self.is_recording = False; self.ui.on_recording_stop(); self.recorder.stop()
AppStopSet(p) ==
    /\ pc[p] = "app_stop_set"
    /\ app_is_recording' = FALSE
    /\ ui_log' = Append(ui_log, "recording_stop")
    /\ pc' = [pc EXCEPT ![p] = "stop_check"]
    /\ StopCalled(p)
    /\ UNCHANGED <<recVars, thrVars, arg, joinee, deadline, nsessions, now>>
    /\ UNCHANGED <<result, cbCalls, endCause, flagSetter>>
    /\ UNCHANGED <<sideVars, keyVars, lsnVars, pipeVars>>

\* ------------------------------------------- MacOSMenuBarUI.toggle_recording
\* the hotkey handler of the GUI mode: _stop_recording or _start_recording by
\* the UI's own flag, which is set before the coordinator is called
GuiToggle(p) ==
    /\ pc[p] = "idle"
    /\ gui_toggles < MaxToggles
    /\ gui_toggles' = gui_toggles + 1
    /\ gui_is_recording' = ~gui_is_recording
    /\ IF gui_is_recording
         THEN pc' = [pc EXCEPT ![p] = "app_stop_check"]
         ELSE /\ app_is_recording \/ StartBudget
              /\ pc' = [pc EXCEPT ![p] = "app_start_check"]
    /\ Returned(p, "none")
    /\ UNCHANGED <<recVars, thrVars, arg, joinee, deadline, nsessions, now, appVars>>
    /\ UNCHANGED <<target, cbCalls, endCause, stopReq, flagSetter>>
    /\ UNCHANGED <<funVars, lockVars, keyVars, lsnVars, pipeVars>>

\* ---------------------------------------------------------- specifications
RecorderStep(p) ==
    \/ RecorderStartCheck(p)
    \/ RecorderStartInit(p)
    \/ RecorderStartSpawn(p)
    \/ RecorderStopCheck(p)
    \/ RecorderStopSet(p)
    \/ RecorderStopTest(p)
    \/ RecorderStopJoin(p)
    \/ RecorderStopClear(p)

CaptureStep(s) ==
    \/ RecordBegin(s)
    \/ RecordOpen(s)
    \/ RecordLoop(s)
    \/ RecordClose(s)
    \/ RecordDeliver(s)
    \/ RecordCallback(s)
    \/ RecordFinally(s)

\* the Recorder driven directly: start() and stop() in any order
Next ==
    \/ \E p \in Callers, cb \in Callbacks : CallStart(p, cb)
    \/ \E p \in Callers : CallStop(p)
    \/ \E p \in Procs : RecorderStep(p)
    \/ \E s \in Sessions : TimerFire(s)
    \/ \E s \in Sessions : CaptureStep(s)
    \/ Tick

Spec == Init /\ [][Next]_vars

\* the application: hotkey events reach the Recorder through CLIUI and
\* DictationApp, on the listener thread
NextApp ==
    \/ OnHotkey(Hotkey)
    \/ AppStartCheck(Hotkey)
    \/ AppStartSet(Hotkey)
    \/ AppStopCheck(Hotkey)
    \/ AppStopSet(Hotkey)
    \/ \E p \in Procs : RecorderStep(p)
    \/ \E s \in Sessions : TimerFire(s)
    \/ \E s \in Sessions : CaptureStep(s)
    \/ Tick

SpecApp == Init /\ [][NextApp]_vars

\* the application in GUI mode: hotkey events reach the Recorder through
\* MacOSMenuBarUI.toggle_recording and DictationApp, on the listener thread
NextGui ==
    \/ GuiToggle(Hotkey)
    \/ AppStartCheck(Hotkey)
    \/ AppStartSet(Hotkey)
    \/ AppStopCheck(Hotkey)
    \/ AppStopSet(Hotkey)
    \/ \E p \in Procs : RecorderStep(p)
    \/ \E s \in Sessions : TimerFire(s)
    \/ \E s \in Sessions : CaptureStep(s)
    \/ Tick

SpecGui == Init /\ [][NextGui]_vars

TypeOK ==
    /\ max_duration \in {None, Duration}
    /\ recording \in BOOLEAN
    /\ stop_flag \in BOOLEAN
    /\ record_thread \in {None} \cup Sessions
    /\ on_complete \in Callbacks \cup {AppCallback, NoCallback}
    /\ frames \in [Sessions -> 0..MaxFrames]
    /\ now \in 0..MaxTime
    /\ nsessions \in 0..MaxSessions
    /\ app_is_recording \in BOOLEAN

\* ------------------------------------------------------------ key events
\* time.time() advances
KeyTick ==
    /\ clock < Epoch + MaxKeyTime
    /\ clock' = clock + 1
    /\ UNCHANGED <<held, kev, kseq, comboVars, tapVars, lsnVars, coreVars>>

\* the keyboard reports an event of kind "press" or "release" of key k, during
\* which the handler invoked its callback n times
KeyEvent(kind, k, n) ==
    /\ kev' = <<kind, k, n>>
    /\ kseq' = 1 - kseq
    /\ held' = IF kind = "press" THEN held \cup {k} ELSE held \ {k}
    /\ UNCHANGED clock

\* -------------------------------------------------------- _KeyComboHandler
ComboPress_Retrigger(k) ==
    LET key1p == (k = Key1) \/ key1_pressed
        key2p == (k # Key1 /\ k = Key2) \/ key2_pressed
        fire  == /\ key1p /\ key2p
                 /\ clock - last_trigger_time >= DebounceDelay
    IN  /\ key1_pressed' = key1p
        /\ key2_pressed' = key2p
        /\ combo_triggered' = (combo_triggered \/ fire)
        /\ last_trigger_time' = IF fire THEN clock ELSE last_trigger_time
        /\ fireTimes' = IF fire THEN <<fireTimes[2], clock>> ELSE fireTimes
        /\ KeyEvent("press", k, IF fire THEN 1 ELSE 0)
        /\ UNCHANGED <<tapVars, lsnVars, coreVars>>

\* _KeyComboHandler.on_key_press(key); a key that is down already repeats
ComboPress(k) ==
    LET key1p == (k = Key1) \/ key1_pressed
        key2p == (k # Key1 /\ k = Key2) \/ key2_pressed
        fire  == /\ key1p /\ key2p /\ ~combo_triggered
                 /\ clock - last_trigger_time >= DebounceDelay
    IN  /\ key1_pressed' = key1p
        /\ key2_pressed' = key2p
        /\ combo_triggered' = (combo_triggered \/ fire)
        /\ last_trigger_time' = IF fire THEN clock ELSE last_trigger_time
        /\ fireTimes' = IF fire THEN <<fireTimes[2], clock>> ELSE fireTimes
        /\ KeyEvent("press", k, IF fire THEN 1 ELSE 0)
        /\ UNCHANGED <<tapVars, lsnVars, coreVars>>

\* _KeyComboHandler.on_key_release(key), of a key that is down
ComboRelease(k) ==
    LET key1p == (k # Key1) /\ key1_pressed
        key2p == (k = Key1 \/ k # Key2) /\ key2_pressed
    IN  /\ k \in held
        /\ key1_pressed' = key1p
        /\ key2_pressed' = key2p
        /\ IF ~key1p \/ ~key2p
             THEN /\ combo_triggered' = FALSE
                  /\ last_trigger_time' = 0
             ELSE UNCHANGED <<combo_triggered, last_trigger_time>>
        /\ KeyEvent("release", k, 0)
        /\ UNCHANGED <<fireTimes, tapVars, lsnVars, coreVars>>

NextCombo ==
    \/ \E k \in ComboKeys : ComboPress(k)
    \/ \E k \in ComboKeys : ComboRelease(k)
    \/ KeyTick

SpecCombo == Init /\ [][NextCombo]_vars

\* ---------------------------------------------------- _DoubleCommandHandler
TapPress_NoWindow(k) ==
    /\ IF k = TapKey
         THEN /\ dc_is_recording' = ~dc_is_recording
              /\ last_press_time' = clock
              /\ prevPress' = clock
              /\ prevFired' = IF dc_is_recording' THEN "start"
                              ELSE IF dc_is_recording THEN "stop" ELSE "none"
              /\ KeyEvent("press", k, 1)
         ELSE /\ UNCHANGED <<last_press_time, dc_is_recording, prevPress, prevFired>>
              /\ KeyEvent("press", k, 0)
    /\ UNCHANGED <<comboVars, lsnVars, coreVars>>

\* _DoubleCommandHandler.on_key_press(key)
TapPress(k) ==
    /\ IF k = TapKey
         THEN /\ IF ~dc_is_recording
                   THEN IF clock - last_press_time < DoubleWindow
                          THEN /\ dc_is_recording' = TRUE
                               /\ KeyEvent("press", k, 1)
                          ELSE /\ UNCHANGED dc_is_recording
                               /\ KeyEvent("press", k, 0)
                   ELSE /\ dc_is_recording' = FALSE
                        /\ KeyEvent("press", k, 1)
              /\ last_press_time' = clock
              /\ prevPress' = clock
              /\ prevFired' = IF dc_is_recording' THEN "start"
                              ELSE IF dc_is_recording THEN "stop" ELSE "none"
         ELSE /\ UNCHANGED <<last_press_time, dc_is_recording, prevPress, prevFired>>
              /\ KeyEvent("press", k, 0)
    /\ UNCHANGED <<comboVars, lsnVars, coreVars>>

TapRelease_Resets(k) ==
    /\ k \in held
    /\ KeyEvent("release", k, 0)
    /\ last_press_time' = 0
    /\ dc_is_recording' = FALSE
    /\ UNCHANGED <<prevPress, prevFired, comboVars, lsnVars, coreVars>>

\* _DoubleCommandHandler.on_key_release(key): pass
TapRelease(k) ==
    /\ k \in held
    /\ KeyEvent("release", k, 0)
    /\ UNCHANGED <<comboVars, tapVars, lsnVars, coreVars>>

NextTap ==
    \/ \E k \in TapKeys : TapPress(k)
    \/ \E k \in TapKeys : TapRelease(k)
    \/ KeyTick

SpecTap == Init /\ [][NextTap]_vars

\* ------------------------------------------------- PynputKeyboardListener
\* the outcome of a call on a listener
Called(l, op, outcome) ==
    /\ lsnResult' = <<l, op, outcome>>
    /\ lsnCalls' = IF op = "start" THEN [lsnCalls EXCEPT ![l] = @ + 1] ELSE lsnCalls

PynputStart_NoGuard ==
    LET n == lsnCalls["pynput"] + 1 IN
    /\ n <= MaxStarts
    /\ pl_on_hotkey' = HotkeyCb(n)
    /\ pl_key_handler' = HotkeyCb(n)
    /\ pl_listener' = n
    /\ pl_running' = pl_running \cup {n}
    /\ Called("pynput", "start", "started")
    /\ UNCHANGED <<keyVars, evdevVars, devVars, coreVars>>

\* PynputKeyboardListener.start(on_hotkey): the n-th call brings a callback of
\* its own and, if it goes through, creates the n-th keyboard.Listener
PynputStart ==
    LET n == lsnCalls["pynput"] + 1 IN
    /\ n <= MaxStarts
    /\ IF pl_listener # None
         THEN /\ Called("pynput", "start", "RuntimeError: already running")
              /\ UNCHANGED pynputVars
         ELSE /\ pl_on_hotkey' = HotkeyCb(n)
              /\ pl_key_handler' = HotkeyCb(n)
              /\ pl_listener' = n
              /\ pl_running' = pl_running \cup {n}
              /\ Called("pynput", "start", "started")
    /\ UNCHANGED <<keyVars, evdevVars, devVars, coreVars>>

\* PynputKeyboardListener.stop()
PynputStop ==
    /\ IF pl_listener # None
         THEN /\ pl_running' = pl_running \ {pl_listener}
              /\ pl_listener' = None
              /\ pl_key_handler' = NoCallback
              /\ Called("pynput", "stop", "stopped")
         ELSE /\ UNCHANGED <<pl_listener, pl_key_handler, pl_running>>
              /\ Called("pynput", "stop", "noop")
    /\ UNCHANGED <<pl_on_hotkey, keyVars, evdevVars, devVars, coreVars>>

\* -------------------------------------------------- EvdevKeyboardListener
\* EvdevKeyboardListener.start(on_hotkey): found is what _find_all_keyboards
\* returns, opened tells whether every InputDevice(path) could be opened
EvdevStart(found, opened) ==
    LET n == lsnCalls["evdev"] + 1
        device_paths == IF ev_device_paths = NoPaths THEN found ELSE ev_device_paths
        k == Len(device_paths)
    IN
    /\ n <= MaxStarts
    /\ IF ev_listener_threads # <<>>
         THEN /\ Called("evdev", "start", "RuntimeError: already running")
              /\ UNCHANGED evdevVars
         ELSE IF device_paths = <<>>
         THEN /\ Called("evdev", "start", "RuntimeError: no keyboard device")
              /\ UNCHANGED evdevVars
         ELSE IF ~opened
         THEN /\ Called("evdev", "start", "OSError")
              /\ UNCHANGED evdevVars
         ELSE /\ ev_keyboard_devices' = device_paths
              /\ ev_on_hotkey' = HotkeyCb(n)
              /\ ev_stop_flag' = FALSE
              /\ ev_listener_threads' = [i \in 1..k |-> ev_nthreads + i]
              /\ ev_nthreads' = ev_nthreads + k
              /\ ev_legacy' = <<device_paths[1], ev_nthreads + 1>>
              /\ Called("evdev", "start", "started")
              /\ UNCHANGED ev_device_paths
    /\ UNCHANGED <<keyVars, pynputVars, coreVars>>

\* EvdevKeyboardListener.stop()
EvdevStop ==
    /\ ev_stop_flag' = TRUE
    /\ ev_listener_threads' = <<>>
    /\ ev_keyboard_devices' = <<>>
    /\ ev_legacy' = <<"None", None>>
    /\ Called("evdev", "stop", "stopped")
    /\ UNCHANGED <<ev_device_paths, ev_on_hotkey, ev_nthreads>>
    /\ UNCHANGED <<keyVars, pynputVars, devVars, coreVars>>

\* the listeners, created with or without a device list and driven by
\* start() and stop() calls in any order
InitListener ==
    /\ InitCore
    /\ \E paths \in {NoPaths} \cup DevicePaths : InitKeyboard(paths)
    /\ InitFun

NextListener ==
    \/ PynputStart
    \/ PynputStop
    \/ \E found \in DevicePaths, opened \in BOOLEAN :
          EvdevStart(found, opened) /\ UNCHANGED devVars
    \/ EvdevStop

SpecListener == InitListener /\ [][NextListener]_vars

\* ------------------------------- EvdevKeyboardListener: the device threads
\* key_event.keystate: key_down, key_up, or key_hold (an auto-repeat)
KeyStates == {"down", "up", "hold"}
KeyState(kind) == IF kind = "press" THEN "down" ELSE "up"
ListThreads == {ev_listener_threads[i] : i \in 1..Len(ev_listener_threads)}

\* a thread that left _listen: its locals are gone
Ended(t) ==
    /\ d_pc' = [d_pc EXCEPT ![t] = "done"]
    /\ d_key1' = [d_key1 EXCEPT ![t] = FALSE]
    /\ d_key2' = [d_key2 EXCEPT ![t] = FALSE]
    /\ d_active' = [d_active EXCEPT ![t] = FALSE]

\* start(on_hotkey) with its threads: each thread of the new list runs
\* _listen on a device opened by this call
DevStart(found, opened) ==
    /\ ev_pc = "idle"
    /\ EvdevStart(found, opened)
    /\ IF lsnResult'[3] = "started"
         THEN /\ d_pc' = [t \in DevThreads |->
                            IF \E i \in 1..Len(ev_listener_threads') :
                                  ev_listener_threads'[i] = t
                              THEN "read" ELSE d_pc[t]]
              /\ d_open' = [t \in DevThreads |->
                              (\E i \in 1..Len(ev_listener_threads') :
                                  ev_listener_threads'[i] = t) \/ d_open[t]]
              /\ UNCHANGED <<d_key1, d_key2, d_active, d_lock, d_fired, d_seq, ev_pc, ev_i>>
         ELSE UNCHANGED devVars

\* a _listen that never clears combo_active
DevEvent_NoReset(t, ks, k) ==
    LET key1p == IF k = Key1 /\ ks = "down" THEN TRUE
                 ELSE IF k = Key1 /\ ks = "up" THEN FALSE ELSE d_key1[t]
        key2p == IF k # Key1 /\ k = Key2 /\ ks = "down" THEN TRUE
                 ELSE IF k # Key1 /\ k = Key2 /\ ks = "up" THEN FALSE ELSE d_key2[t]
        fire  == key1p /\ key2p /\ ~d_active[t]
    IN  /\ d_pc[t] = "read"
        /\ d_open[t]
        /\ IF ev_stop_flag
             THEN /\ Ended(t)
                  /\ d_fired' = 0
             ELSE /\ d_key1' = [d_key1 EXCEPT ![t] = key1p]
                  /\ d_key2' = [d_key2 EXCEPT ![t] = key2p]
                  /\ d_active' = [d_active EXCEPT ![t] = d_active[t] \/ fire]
                  /\ d_pc' = [d_pc EXCEPT ![t] = IF fire THEN "lock" ELSE "read"]
                  /\ d_fired' = IF fire THEN 1 ELSE 0
        /\ d_seq' = kseq
        /\ UNCHANGED <<d_open, d_lock, ev_pc, ev_i>>
        /\ UNCHANGED <<keyVars, pynputVars, evdevVars, lsnCalls, lsnResult, coreVars>>

\* _listen: read_loop yields an EV_KEY event of key k with keystate ks; the
\* thread tests the stop flag, updates its flags and, when the combo becomes
\* complete, goes on to take the lock
DevEvent(t, ks, k) ==
    LET key1p == IF k = Key1 /\ ks = "down" THEN TRUE
                 ELSE IF k = Key1 /\ ks = "up" THEN FALSE ELSE d_key1[t]
        key2p == IF k # Key1 /\ k = Key2 /\ ks = "down" THEN TRUE
                 ELSE IF k # Key1 /\ k = Key2 /\ ks = "up" THEN FALSE ELSE d_key2[t]
        fire  == key1p /\ key2p /\ ~d_active[t]
    IN  /\ d_pc[t] = "read"
        /\ d_open[t]
        /\ IF ev_stop_flag
             THEN /\ Ended(t)
                  /\ d_fired' = 0
             ELSE /\ d_key1' = [d_key1 EXCEPT ![t] = key1p]
                  /\ d_key2' = [d_key2 EXCEPT ![t] = key2p]
                  /\ d_active' = [d_active EXCEPT ![t] = key1p /\ key2p]
                  /\ d_pc' = [d_pc EXCEPT ![t] = IF fire THEN "lock" ELSE "read"]
                  /\ d_fired' = IF fire THEN 1 ELSE 0
        /\ d_seq' = kseq
        /\ UNCHANGED <<d_open, d_lock, ev_pc, ev_i>>
        /\ UNCHANGED <<keyVars, pynputVars, evdevVars, lsnCalls, lsnResult, coreVars>>

\* a thread that calls on_hotkey without taking the lock
DevAcquire_NoLock(t) ==
    /\ d_pc[t] = "lock"
    /\ d_pc' = [d_pc EXCEPT ![t] = IF ev_on_hotkey # NoCallback THEN "callback" ELSE "read"]
    /\ UNCHANGED <<d_key1, d_key2, d_active, d_open, d_lock, d_fired, d_seq, ev_pc, ev_i>>
    /\ UNCHANGED <<keyVars, pynputVars, evdevVars, lsnCalls, lsnResult, coreVars>>

\* _listen: "with self._lock" is entered and on_hotkey, if set, is called
DevAcquire(t) ==
    /\ d_pc[t] = "lock"
    /\ d_lock = None
    /\ IF ev_on_hotkey # NoCallback
         THEN /\ d_lock' = t
              /\ d_pc' = [d_pc EXCEPT ![t] = "callback"]
         ELSE /\ d_lock' = None
              /\ d_pc' = [d_pc EXCEPT ![t] = "read"]
    /\ UNCHANGED <<d_key1, d_key2, d_active, d_open, d_fired, d_seq, ev_pc, ev_i>>
    /\ UNCHANGED <<keyVars, pynputVars, evdevVars, lsnCalls, lsnResult, coreVars>>

\* _listen: on_hotkey returns or raises; the lock is released; an exception
\* (other than OSError) ends the thread
DevReturn(t, raised) ==
    /\ d_pc[t] = "callback"
    /\ d_lock' = IF d_lock = t THEN None ELSE d_lock
    /\ IF raised
         THEN Ended(t)
         ELSE /\ d_pc' = [d_pc EXCEPT ![t] = "read"]
              /\ UNCHANGED <<d_key1, d_key2, d_active>>
    /\ UNCHANGED <<d_open, d_fired, d_seq, ev_pc, ev_i>>
    /\ UNCHANGED <<keyVars, pynputVars, evdevVars, lsnCalls, lsnResult, coreVars>>

\* _listen: reading from a closed device raises OSError, which ends the loop
DevReadError(t) ==
    /\ d_pc[t] = "read"
    /\ ~d_open[t]
    /\ Ended(t)
    /\ UNCHANGED <<d_open, d_lock, d_fired, d_seq, ev_pc, ev_i>>
    /\ UNCHANGED <<keyVars, pynputVars, evdevVars, lsnCalls, lsnResult, coreVars>>

\* stop(): the flag is set
DevStopBegin ==
    /\ ev_pc = "idle"
    /\ ev_stop_flag' = TRUE
    /\ ev_pc' = "join"
    /\ ev_i' = 1
    /\ UNCHANGED <<ev_device_paths, ev_keyboard_devices, ev_listener_threads,
                   ev_on_hotkey, ev_legacy, ev_nthreads>>
    /\ UNCHANGED <<d_pc, d_key1, d_key2, d_active, d_open, d_lock, d_fired, d_seq>>
    /\ UNCHANGED <<keyVars, pynputVars, lsnCalls, lsnResult, coreVars>>

\* stop(): t.join(timeout=1.0) returns, the thread having ended or the
\* second having passed
DevStopJoin(timedOut) ==
    /\ ev_pc = "join"
    /\ ev_i <= Len(ev_listener_threads)
    /\ d_pc[ev_listener_threads[ev_i]] = "done" \/ timedOut
    /\ ev_i' = ev_i + 1
    /\ UNCHANGED <<d_pc, d_key1, d_key2, d_active, d_open, d_lock, d_fired, d_seq, ev_pc>>
    /\ UNCHANGED <<keyVars, pynputVars, evdevVars, lsnCalls, lsnResult, coreVars>>

\* stop(): the thread list is cleared, the devices are closed and the
\* lists and legacy attributes reset
DevStopFinish ==
    /\ ev_pc = "join"
    /\ ev_i > Len(ev_listener_threads)
    /\ ev_listener_threads' = <<>>
    /\ d_open' = [t \in DevThreads |-> d_open[t] /\ t \notin ListThreads]
    /\ ev_keyboard_devices' = <<>>
    /\ ev_legacy' = <<"None", None>>
    /\ ev_pc' = "idle"
    /\ ev_i' = 0
    /\ Called("evdev", "stop", "stopped")
    /\ UNCHANGED <<ev_device_paths, ev_stop_flag, ev_on_hotkey, ev_nthreads>>
    /\ UNCHANGED <<d_pc, d_key1, d_key2, d_active, d_lock, d_fired, d_seq>>
    /\ UNCHANGED <<keyVars, pynputVars, coreVars>>

\* the evdev listener with its device threads: start() and stop() calls of
\* the main thread, key events of every keystate on each device
NextDevices ==
    \/ \E found \in DevicePaths, opened \in BOOLEAN :
          lsnCalls["evdev"] < MaxListens /\ DevStart(found, opened)
    \/ DevStopBegin
    \/ \E timedOut \in BOOLEAN : DevStopJoin(timedOut)
    \/ DevStopFinish
    \/ \E t \in DevThreads, ks \in KeyStates, k \in ComboKeys : DevEvent(t, ks, k)
    \/ \E t \in DevThreads : DevAcquire(t)
    \/ \E t \in DevThreads, raised \in BOOLEAN : DevReturn(t, raised)
    \/ \E t \in DevThreads : DevReadError(t)

\* the listener is created without a device list: start() looks for keyboards
InitDevices ==
    /\ InitCore
    /\ max_duration = None
    /\ InitKeyboard(NoPaths)
    /\ InitFun

SpecDevices == InitDevices /\ [][NextDevices]_vars

\* one keyboard watched by both detectors: every key event is handled by
\* _KeyComboHandler and is read, as key_down or key_up, by the thread of an
\* evdev listener created with one device
InitDetect ==
    /\ InitCore
    /\ max_duration = None
    /\ InitKeyboard(<<"event0">>)
    /\ InitFun

NextDetect ==
    \/ ev_listener_threads = <<>> /\ DevStart(<<>>, TRUE)
    \/ \E k \in ComboKeys : d_seq = kseq /\ ComboPress(k)
    \/ \E k \in ComboKeys : d_seq = kseq /\ ComboRelease(k)
    \/ \E t \in DevThreads : d_seq # kseq /\ DevEvent(t, KeyState(kev[1]), kev[2])
    \/ \E t \in DevThreads : DevAcquire(t)
    \/ \E t \in DevThreads : DevReturn(t, FALSE)
    \/ KeyTick

SpecDetect == InitDetect /\ [][NextDetect]_vars

\* ------------------------------------------------------ the instance lock
\* the process is gone: the system closes its files, which drops its flock
Exited(p, status) ==
    /\ main_pc' = [main_pc EXCEPT ![p] = "exited"]
    /\ exit_status' = [exit_status EXCEPT ![p] = status]
    /\ lock_holders' = lock_holders \ {p}

\* a process that goes on after flock raised OSError
AcquireInstanceLock_Continue(p) ==
    /\ main_pc[p] = "none"
    /\ lock_refused' = [lock_refused EXCEPT ![p] = lock_holders # {}]
    /\ lock_holders' = IF lock_holders = {} THEN {p} ELSE lock_holders
    /\ main_pc' = [main_pc EXCEPT ![p] = "parse"]
    /\ UNCHANGED <<exit_status, app_created, mainVars>>

\* _acquire_instance_lock(), the first statement of main(): the process opens
\* the lock file and asks for the exclusive flock without blocking, which is
\* granted if no other open file holds it; if not, sys.exit(1)
AcquireInstanceLock(p) ==
    /\ main_pc[p] = "none"
    /\ IF lock_holders # {}
         THEN /\ lock_refused' = [lock_refused EXCEPT ![p] = TRUE]
              /\ Exited(p, "1")
         ELSE /\ lock_holders' = {p}
              /\ main_pc' = [main_pc EXCEPT ![p] = "parse"]
              /\ UNCHANGED <<exit_status, lock_refused>>
    /\ UNCHANGED <<app_created, mainVars>>

\* main(): parse_arguments(), outside the try; argparse exits with status 2
\* on arguments it does not accept
MainParse(p, accepted) ==
    /\ main_pc[p] = "parse"
    /\ IF accepted
         THEN /\ main_pc' = [main_pc EXCEPT ![p] = "create"]
              /\ UNCHANGED <<exit_status, lock_holders>>
         ELSE Exited(p, "2")
    /\ UNCHANGED <<app_created, lock_refused, mainVars>>

\* main(): the configuration is created and validated and DictationApp is
\* created; an exception before that leads to sys.exit(1) and the finally
MainCreate(p, raised) ==
    /\ main_pc[p] = "create"
    /\ IF raised
         THEN /\ main_pc' = [main_pc EXCEPT ![p] = "finally"]
              /\ exit_status' = [exit_status EXCEPT ![p] = "1"]
              /\ UNCHANGED app_created
         ELSE /\ main_pc' = [main_pc EXCEPT ![p] = "run"]
              /\ app_created' = [app_created EXCEPT ![p] = TRUE]
              /\ UNCHANGED exit_status
    /\ UNCHANGED <<lock_holders, lock_refused, mainVars>>

\* the ways DictationApp(config) and app.run() end
RunEnds == {"returned", "KeyboardInterrupt", "SystemExit(0)", "Exception"}

\* main(): app.run() returns or raises; the status the process will exit with
MainRun(p, end) ==
    /\ main_pc[p] = "run"
    /\ end \in RunEnds
    /\ main_pc' = [main_pc EXCEPT ![p] = "finally"]
    /\ exit_status' = [exit_status EXCEPT ![p] = IF end = "Exception" THEN "1" ELSE "0"]
    /\ UNCHANGED <<lock_holders, app_created, lock_refused, mainVars>>

\* main(): finally: lock_file.close(), and the process exits
MainFinally(p) ==
    /\ main_pc[p] = "finally"
    /\ Exited(p, exit_status[p])
    /\ UNCHANGED <<app_created, lock_refused, mainVars>>

\* the process is killed or crashes anywhere in main()
MainKilled(p) ==
    /\ main_pc[p] \in {"parse", "create", "run", "finally"}
    /\ Exited(p, "killed")
    /\ UNCHANGED <<app_created, lock_refused, mainVars>>

\* dictation processes started at any time on one machine
NextLock ==
    \/ \E p \in MainProcs : AcquireInstanceLock(p)
    \/ \E p \in MainProcs, accepted \in BOOLEAN : MainParse(p, accepted)
    \/ \E p \in MainProcs, raised \in BOOLEAN : MainCreate(p, raised)
    \/ \E p \in MainProcs, end \in RunEnds : MainRun(p, end)
    \/ \E p \in MainProcs : MainFinally(p)
    \/ \E p \in MainProcs : MainKilled(p)

InitMain ==
    /\ InitProg
    /\ InitFun

SpecLock == InitMain /\ [][NextLock]_vars

\* ------------------------------------------------ normalize_text on its own

\* one character of each class the patterns of normalize_text tell apart:
\* the space, another whitespace character, a punctuation mark, a quote (an
\* opening and a closing mark at once), a mark that only opens, a mark that
\* only closes, and a letter
TextChars == {" ", "\t", ".", "\"", "(", ")", "a"}

RECURSIVE TextsOfLen(_)
TextsOfLen(n) ==
    IF n = 0 THEN {<<>>}
    ELSE {Append(t, c) : t \in TextsOfLen(n - 1), c \in TextChars}

Texts == UNION {TextsOfLen(n) : n \in 0..MaxTextLen}

\* result = normalize_text(text)
Normalize ==
    /\ text_phase = "input"
    /\ text_out' = normalize_text(text_in)
    /\ text_phase' = "normalized"
    /\ UNCHANGED <<text_in, text_again, progVars>>
    /\ UNCHANGED <<injVars, qwenVars, sampleVars, cfgVars>>

\* normalize_text(result)
NormalizeAgain ==
    /\ text_phase = "normalized"
    /\ text_again' = normalize_text(text_out)
    /\ text_phase' = "renormalized"
    /\ UNCHANGED <<text_in, text_out, progVars>>
    /\ UNCHANGED <<injVars, qwenVars, sampleVars, cfgVars>>

InitTexts ==
    /\ InitProg
    /\ \E text \in Texts : InitText(text)
    /\ InitInject(<<>>)
    /\ InitQwen(NoneStr, <<>>)
    /\ InitSamples(<<>>, FALSE)
    /\ InitConfig(NoArgs)

NextText ==
    \/ Normalize
    \/ NormalizeAgain

SpecText == InitTexts /\ [][NextText]_vars

\* ------------------------------------------------------ the text injectors
MaxInjectLen == 3     \* characters of a text given to inject_text
InjectChars  == {"H", "i"}

RECURSIVE InjectTextsOfLen(_)
InjectTextsOfLen(n) ==
    IF n = 0 THEN {<<>>}
    ELSE {Append(t, c) : t \in InjectTextsOfLen(n - 1), c \in InjectChars}

InjectTexts == UNION {InjectTextsOfLen(n) : n \in 0..MaxInjectLen}

\* an iteration whose failed typing call ends the loop
PynputType_Propagate ==
    /\ py_pc = "typing"
    /\ py_pos < Len(inj_text)
    /\ \E outcome \in {"typed", "raises"} :
          /\ py_calls' = Append(py_calls, <<inj_text[py_pos + 1], outcome>>)
          /\ py_pos' = py_pos + 1
          /\ py_pc' = IF outcome = "raises" THEN "raised" ELSE py_pc
    /\ UNCHANGED <<inj_text, ydo_calls, ydo_pc, progVars>>
    /\ UNCHANGED <<textVars, qwenVars, sampleVars, cfgVars>>

\* PynputTextInjector.inject_text: one iteration of `for char in text`;
\* keyboard_controller.type(char) types the character or raises, and the
\* except clause goes on to the next character
PynputType ==
    /\ py_pc = "typing"
    /\ py_pos < Len(inj_text)
    /\ \E outcome \in {"typed", "raises"} :
          py_calls' = Append(py_calls, <<inj_text[py_pos + 1], outcome>>)
    /\ py_pos' = py_pos + 1
    /\ UNCHANGED <<inj_text, py_pc, ydo_calls, ydo_pc, progVars>>
    /\ UNCHANGED <<textVars, qwenVars, sampleVars, cfgVars>>

\* PynputTextInjector.inject_text: the loop is exhausted
PynputReturn ==
    /\ py_pc = "typing"
    /\ py_pos = Len(inj_text)
    /\ py_pc' = "returned"
    /\ UNCHANGED <<inj_text, py_pos, py_calls, ydo_calls, ydo_pc, progVars>>
    /\ UNCHANGED <<textVars, qwenVars, sampleVars, cfgVars>>

\* an injector that runs the command again after a failure
YdotoolInject_Retry ==
    /\ ydo_pc = "called"
    /\ \E outcome \in {"exit 0", "exit 1", "not launched"} :
          ydo_calls' = IF inj_text = <<>> THEN ydo_calls
                       ELSE IF outcome = "exit 0"
                              THEN Append(ydo_calls, <<inj_text, outcome>>)
                              ELSE ydo_calls \o <<<<inj_text, outcome>>,
                                                  <<inj_text, "exit 0">>>>
    /\ ydo_pc' = "returned"
    /\ UNCHANGED <<inj_text, py_pos, py_calls, py_pc, progVars>>
    /\ UNCHANGED <<textVars, qwenVars, sampleVars, cfgVars>>

\* YdotoolTextInjector.inject_text: nothing for an empty text; otherwise one
\* subprocess.run(["ydotool", "type", text], check=True), which returns,
\* raises CalledProcessError (non-zero exit) or raises another exception
\* (the command cannot be launched); both except clauses only print
YdotoolInject ==
    /\ ydo_pc = "called"
    /\ \E outcome \in {"exit 0", "exit 1", "not launched"} :
          ydo_calls' = IF inj_text = <<>> THEN ydo_calls
                       ELSE Append(ydo_calls, <<inj_text, outcome>>)
    /\ ydo_pc' = "returned"
    /\ UNCHANGED <<inj_text, py_pos, py_calls, py_pc, progVars>>
    /\ UNCHANGED <<textVars, qwenVars, sampleVars, cfgVars>>

InitInjectors ==
    /\ InitProg
    /\ InitText(<<>>)
    /\ \E text \in InjectTexts : InitInject(text)
    /\ InitQwen(NoneStr, <<>>)
    /\ InitSamples(<<>>, FALSE)
    /\ InitConfig(NoArgs)

NextInject ==
    \/ PynputType
    \/ PynputReturn
    \/ YdotoolInject

SpecInject == InitInjectors /\ [][NextInject]_vars

\* ------------------------------------------------ Qwen3Transcriber.transcribe
\* ISO 639-1 code to the language name Qwen3-ASR expects
LANGUAGE_MAP ==
    "en" :> "English" @@ "zh" :> "Chinese" @@ "ja" :> "Japanese" @@
    "ko" :> "Korean" @@ "es" :> "Spanish" @@ "fr" :> "French" @@
    "de" :> "German" @@ "it" :> "Italian" @@ "pt" :> "Portuguese" @@
    "ru" :> "Russian" @@ "ar" :> "Arabic" @@ "hi" :> "Hindi" @@
    "vi" :> "Vietnamese" @@ "th" :> "Thai" @@ "id" :> "Indonesian" @@
    "ms" :> "Malay" @@ "nl" :> "Dutch" @@ "pl" :> "Polish" @@
    "tr" :> "Turkish" @@ "uk" :> "Ukrainian" @@ "cs" :> "Czech" @@
    "sv" :> "Swedish" @@ "da" :> "Danish" @@ "fi" :> "Finnish" @@
    "no" :> "Norwegian" @@ "he" :> "Hebrew" @@ "el" :> "Greek" @@
    "ro" :> "Romanian" @@ "hu" :> "Hungarian" @@ "sk" :> "Slovak" @@
    "bg" :> "Bulgarian" @@ "hr" :> "Croatian" @@ "lt" :> "Lithuanian" @@
    "lv" :> "Latvian" @@ "et" :> "Estonian" @@ "sl" :> "Slovenian" @@
    "ca" :> "Catalan"

\* the language arguments: every code of the table, None, the empty string,
\* a code the table does not have, a code in capitals and a language name
Languages == DOMAIN LANGUAGE_MAP \cup {NoneStr, "", "xx", "ES", "Spanish"}

\* what model.transcribe returns: the texts of a list of results
ModelResults ==
    {<<>>, <<<<"a">>>>, <<<<" ", "a", " ">>>>, <<<<" ">>>>, <<<<"a", "\t">>, <<"b">>>>}

\* LANGUAGE_MAP.get(language) if language else None
LangName(language) ==
    IF language \in {NoneStr, ""} THEN NoneStr
    ELSE IF language \in DOMAIN LANGUAGE_MAP THEN LANGUAGE_MAP[language]
    ELSE NoneStr

\* a transcriber that hands the code itself to the model
QwenTranscribe_RawCode ==
    /\ q_pc = "called"
    /\ q_passed' = q_language
    /\ q_returned' = IF q_results # <<>> THEN Strip(q_results[1]) ELSE <<>>
    /\ q_pc' = "returned"
    /\ UNCHANGED <<q_language, q_results, progVars>>
    /\ UNCHANGED <<textVars, injVars, sampleVars, cfgVars>>

\* Qwen3Transcriber.transcribe(audio, language)
QwenTranscribe ==
    /\ q_pc = "called"
    /\ q_passed' = LangName(q_language)
    /\ q_returned' = IF q_results # <<>> THEN Strip(q_results[1]) ELSE <<>>
    /\ q_pc' = "returned"
    /\ UNCHANGED <<q_language, q_results, progVars>>
    /\ UNCHANGED <<textVars, injVars, sampleVars, cfgVars>>

InitTranscribe ==
    /\ InitProg
    /\ InitText(<<>>)
    /\ InitInject(<<>>)
    /\ \E language \in Languages, results \in ModelResults :
          InitQwen(language, results)
    /\ InitSamples(<<>>, FALSE)
    /\ InitConfig(NoArgs)

NextQwen == QwenTranscribe

SpecQwen == InitTranscribe /\ [][NextQwen]_vars

\* ------------------------------------- Recorder._record_impl: the conversion
MaxChunks   == 2      \* chunks the capture loop has read
\* the values of a byte that matter for the sign and the extremes
SampleBytes == {0, 1, 127, 128, 255}
\* stream.read returns whole 16-bit frames: here one frame, low byte first
Chunks == {<<lo, hi>> : lo \in SampleBytes, hi \in SampleBytes}

RECURSIVE ChunkSeqsOfLen(_)
ChunkSeqsOfLen(n) ==
    IF n = 0 THEN {<<>>}
    ELSE {Append(f, c) : f \in ChunkSeqsOfLen(n - 1), c \in Chunks}

ChunkSeqs == UNION {ChunkSeqsOfLen(n) : n \in 0..MaxChunks}

\* b"".join(frames)
RECURSIVE Join(_)
Join(chunks) ==
    IF chunks = <<>> THEN <<>> ELSE Head(chunks) \o Join(Tail(chunks))

\* a sample read as an unsigned number
Int16_Unsigned(lo, hi) == lo + 256 * hi

\* dtype=np.int16 on two bytes: two's complement, low byte first
Int16(lo, hi) ==
    LET u == lo + 256 * hi
    IN  IF u >= 32768 THEN u - 65536 ELSE u

\* np.frombuffer(bytes, dtype=np.int16)
FromBuffer(bytes) ==
    [i \in 1..(Len(bytes) \div 2) |-> Int16(bytes[2 * i - 1], bytes[2 * i])]

\* .astype(np.float32) / 32768.0: the quotient s / 32768 is kept as the pair
\* of s and the divisor (float32 holds every such quotient exactly)
SampleScale == 32768
ToFloat(samples) == [i \in 1..Len(samples) |-> <<samples[i], SampleScale>>]

\* the end of _record_impl: the conversion and the call of the callback
ConvertAndDeliver ==
    /\ s_pc = "read"
    /\ LET audio_data == ToFloat(FromBuffer(Join(s_frames)))
       IN  s_delivered' = IF s_on_complete /\ Len(audio_data) > 0
                            THEN Append(s_delivered, audio_data)
                            ELSE s_delivered
    /\ s_pc' = "done"
    /\ UNCHANGED <<s_frames, s_on_complete, progVars>>
    /\ UNCHANGED <<textVars, injVars, qwenVars, cfgVars>>

InitConversion ==
    /\ InitProg
    /\ InitText(<<>>)
    /\ InitInject(<<>>)
    /\ InitQwen(NoneStr, <<>>)
    /\ \E chunks \in ChunkSeqs, cb \in BOOLEAN : InitSamples(chunks, cb)
    /\ InitConfig(NoArgs)

NextSamples == ConvertAndDeliver

SpecSamples == InitConversion /\ [][NextSamples]_vars

\* ----------------------------------------------------- create_default_config
MacMaxTime  == 30     \* whisper_dictation: max_recording_time on macOS
TestMaxTime == 60     \* an override that is neither default
\* max_time: None, or a number of seconds
MaxTimes == {None, MacMaxTime, TestMaxTime, DefaultMaxTime}

\* languages: None, the empty list, or a list of codes
LanguageLists == {<<NoneStr>>, <<>>, <<"en">>, <<"es", "en">>}

\* the calls of create_default_config: the package, what get_platform_info
\* and find_spec("rumps") report, and the arguments (the newer package has
\* neither use_double_cmd nor no_gui and never looks for rumps)
ConfigArgs ==
    {a \in [package : {"whisper_dictation", "dictation"},
            os_name : {"Darwin", "Linux", "Windows"},
            rumps : BOOLEAN,
            model : {NoneStr, "tiny"},
            hotkey : {NoneStr, "f5"},
            use_double_cmd : BOOLEAN,
            languages : LanguageLists,
            max_time : MaxTimes,
            no_gui : BOOLEAN] :
        a.package = "dictation" => ~a.rumps /\ ~a.use_double_cmd /\ ~a.no_gui}

\* create_default_config of either package
CreateDefaultConfig ==
    /\ c_pc = "called"
    /\ LET a == c_args
           whisper == a.package = "whisper_dictation"
           is_macos == a.os_name = "Darwin"
       IN  c_config' =
             [model_name |->
                  IF a.model # NoneStr THEN a.model
                  ELSE IF whisper THEN "large-v3-turbo" ELSE "Qwen/Qwen3-ASR-0.6B",
              hotkey |->
                  IF a.hotkey # NoneStr THEN a.hotkey
                  ELSE IF is_macos THEN "cmd_l+alt" ELSE "ctrl+alt",
              use_double_cmd |-> a.use_double_cmd,
              languages |-> a.languages,
              default_language |->
                  IF a.languages \in {<<NoneStr>>, <<>>} THEN NoneStr
                  ELSE a.languages[1],
              max_recording_time |->
                  IF ~whisper THEN a.max_time
                  ELSE IF a.max_time = None THEN None
                  ELSE IF is_macos THEN MacMaxTime
                  ELSE a.max_time,
              ui_mode |->
                  IF ~whisper THEN ""
                  ELSE IF a.no_gui \/ ~is_macos THEN "cli"
                  ELSE IF a.rumps THEN "gui" ELSE "cli",
              os_name |-> a.os_name]
    /\ c_pc' = "returned"
    /\ UNCHANGED <<c_args, progVars>>
    /\ UNCHANGED <<textVars, injVars, qwenVars, sampleVars>>

InitConfigs ==
    /\ InitProg
    /\ InitText(<<>>)
    /\ InitInject(<<>>)
    /\ InitQwen(NoneStr, <<>>)
    /\ InitSamples(<<>>, FALSE)
    /\ \E args \in ConfigArgs : InitConfig(args)

NextConfig == CreateDefaultConfig

SpecConfig == InitConfigs /\ [][NextConfig]_vars

\* ================================================================ claims

\* C1: at most one recording session is active at any instant: whatever the
\* order of the start() and stop() calls, at most one capture thread running
\* _record_impl exists at a time.
C1_AtMostOneSession ==
    Cardinality({s \in Sessions : Live(s)}) <= 1

\* C2: start() called while is_recording() is true raises RuntimeError and
\* changes nothing: the stored callback, the stop flag and the thread handle
\* stay as they were, and no capture thread and no timer is created.
C2_StartRejectedNoChange ==
    [][\A p \in Callers :
          (pc[p] = "start_check" /\ recording /\ pc'[p] # pc[p])
          => /\ pc'[p] = Rest(p)
             /\ result'[p] = "RuntimeError"
             /\ UNCHANGED <<recVars, thrVars, nsessions, deadline>>
             /\ \A t \in Timers : pc'[t] = pc[t]]_vars

\* a second start(), with a callback of its own, was rejected while the first
\* session records on with its own callback, thread and stop flag
C2_Witness ==
    \E p \in Callers :
        /\ pc[p] = "idle" /\ result[p] = "RuntimeError"
        /\ recording /\ ~stop_flag
        /\ record_thread # None /\ Live(record_thread)
        /\ on_complete = Callback(1) /\ arg[p] = Callback(2)
        /\ pc[Timer(1)] = "armed" /\ pc[Timer(2)] = "unarmed"

\* C3: a stop() called after start() has returned ends the session that
\* start() created: when stop() has returned, that session's capture thread
\* has ended, its stream is released and its handle is cleared.
C3_StopEndsSession ==
    \A p \in Callers :
        (pc[p] = "idle" /\ result[p] \in {"noop", "stopped"} /\ target[p] # None)
        => /\ tpc[target[p]] = "done"
           /\ stream[target[p]] # "open"
           /\ record_thread # target[p]

\* C4: once a recording session has ended, for whatever reason, and no
\* hotkey event is being handled, the coordinator is idle again, so that the
\* next hotkey event starts a recording.
C4_ReturnsToIdle ==
    (pc[Hotkey] = "idle" /\ \A s \in Sessions : ~Live(s)) => ~app_is_recording

\* C5 (as stated): the completion callback of a session is invoked at most
\* once, and only after a stop() of that session was requested (by a caller
\* or by the auto-stop timer).
C5_CallbackOnlyAfterStop ==
    \A s \in Sessions :
        /\ cbCalls[s] <= 1
        /\ tpc[s] = "callback" => stopReq[s]

\* C5 (amended): the completion callback of a session is invoked at most
\* once, and only after its capture loop has finished reading, because the
\* stop flag was seen set or because a read failed, and after its stream has
\* been closed.
C5_CallbackAfterLoop ==
    \A s \in Sessions :
        /\ cbCalls[s] <= 1
        /\ cbCalls[s] = 1 =>
              /\ tpc[s] \in {"callback", "finally", "done"}
              /\ endCause[s] \in {"flag", "error"}
              /\ stream[s] = "closed"

\* the callback of a session runs after a read error ended the loop, and
\* nobody has called stop()
C5_Witness ==
    \E s \in Sessions :
        /\ tpc[s] = "callback" /\ cbCalls[s] = 1
        /\ endCause[s] = "error" /\ ~stopReq[s]

\* C6: with a maximum duration configured, once the auto-stop timer of a
\* session has run (max_duration has passed and the timer's stop() has
\* returned), the session has ended, and its callback was invoked at most
\* once.
C6_TimerEndsSession ==
    \A s \in Sessions :
        pc[Timer(s)] = "dead" => (tpc[s] = "done" /\ cbCalls[s] <= 1)

\* C7: the auto-stop deadline belongs to the session that scheduled it: no
\* session's capture loop is ended by an auto-stop timer before the session's
\* own deadline, max_duration after its own start(); so the timer left over
\* from an earlier session never ends a later one.
C7_OwnDeadline ==
    [][\A s \in Sessions :
          (tpc[s] = "loop" /\ tpc'[s] = "close" /\ stop_flag /\ flagSetter \in Timers)
          => ~(pc[Timer(s)] = "armed" /\ now < deadline[s])]_vars

\* C8: every hotkey event toggles recording: none is dropped by the
\* coordinator's own guard.
C8_HotkeyToggles ==
    result[Hotkey] \notin {"start_ignored", "stop_ignored"}

\* C9: on_start_recording() while the coordinator is already recording
\* returns at once: is_recording stays true, the UI gets no further event and
\* Recorder.start() is not called.
C9_StartWhileRecordingNoop ==
    [][(pc[Hotkey] = "app_start_check" /\ app_is_recording /\ pc'[Hotkey] # pc[Hotkey])
        => /\ pc'[Hotkey] = "idle"
           /\ app_is_recording'
           /\ UNCHANGED <<ui_log, recVars, thrVars, arg, nsessions>>]_vars

\* on_start_recording() has returned without effect: one recording_start
\* event only, and one session
C9_Witness ==
    /\ pc[Hotkey] = "idle" /\ result[Hotkey] = "start_ignored"
    /\ app_is_recording
    /\ ui_log = <<"recording_start">>
    /\ nsessions = 1

\* C10: stop() while is_recording() is false returns at once: it raises
\* nothing, leaves the stop flag, the thread handle and is_recording() as
\* they were, and joins nothing.
C10_StopIdleNoop ==
    [][\A p \in Procs :
          (pc[p] = "stop_check" /\ ~recording /\ pc'[p] # pc[p])
          => /\ pc'[p] = Rest(p)
             /\ p \in Callers => result'[p] = "noop"
             /\ UNCHANGED <<recVars, thrVars, joinee, nsessions>>]_vars

\* stop() on a recorder that never recorded has returned, and nothing changed
C10_Witness ==
    /\ pc[Hotkey] = "idle" /\ result[Hotkey] = "noop"
    /\ nsessions = 0
    /\ ~recording /\ ~stop_flag /\ record_thread = None

\* C11: combo detector: the callback is invoked exactly once by the press
\* event that brings both combo keys down, whichever key comes second, and by
\* no other event: not by a repeated press while both stay down, not by a
\* press of another key, not by a release; once either key has been released,
\* the press that brings both down again invokes it once more.
BothDown(h) == Key1 \in h /\ Key2 \in h
C12_DebounceSpacing ==
    fireTimes[1] # 0 => fireTimes[2] - fireTimes[1] >= DebounceDelay

\* C13: double-tap detector, on a press of the tracked key: while inactive,
\* the press sets active and invokes the callback once if it follows the
\* previous press of the key by less than the window, and does nothing if
\* there was no previous press or it is the window or more ago; while active,
\* the press invokes the callback once and clears active.
C13_DoubleTap ==
    [][(kseq' # kseq /\ kev'[1] = "press" /\ kev'[2] = TapKey) =>
          IF dc_is_recording
            THEN ~dc_is_recording' /\ kev'[3] = 1
            ELSE IF prevPress # 0 /\ clock - prevPress < DoubleWindow
                   THEN dc_is_recording' /\ kev'[3] = 1
                   ELSE ~dc_is_recording' /\ kev'[3] = 0]_vars

\* a press while active has fired the stop, the window after the handler
\* was created
C13_Witness ==
    /\ kev = <<"press", TapKey, 1>>
    /\ ~dc_is_recording
    /\ prevPress = clock
    /\ clock >= Epoch + DoubleWindow

\* C14: start() on a listener that is started already (pynput: a Listener
\* exists; evdev: device threads exist) raises RuntimeError and leaves the
\* listener's callback, handler, threads and devices as they were; so at most
\* one keyboard.Listener registered by the pynput listener runs at a time.
C14_SecondStartRejected ==
    /\ [](Cardinality(pl_running) <= 1)
    /\ [][/\ (lsnCalls'["pynput"] # lsnCalls["pynput"] /\ pl_listener # None)
             => /\ lsnResult' = <<"pynput", "start", "RuntimeError: already running">>
                /\ UNCHANGED pynputVars
          /\ (lsnCalls'["evdev"] # lsnCalls["evdev"] /\ ev_listener_threads # <<>>)
             => /\ lsnResult' = <<"evdev", "start", "RuntimeError: already running">>
                /\ UNCHANGED evdevVars]_vars

\* both listeners have been started twice: the second start() of each was
\* rejected and the first registration stands
C14_Witness ==
    /\ lsnResult = <<"evdev", "start", "RuntimeError: already running">>
    /\ lsnCalls["evdev"] = 2 /\ lsnCalls["pynput"] = 2
    /\ ev_on_hotkey = HotkeyCb(1) /\ ev_listener_threads = <<1, 2>>
    /\ ev_keyboard_devices = <<"event0", "event1">>
    /\ pl_listener = 1 /\ pl_on_hotkey = HotkeyCb(1) /\ pl_running = {1}

\* C15: when the audio device cannot be opened, the failure stays in the
\* capture thread: the thread that called start() is not affected, the
\* session's callback is never invoked, no stream is open, and the session
\* ends by setting is_recording() false.
C15_OpenFailure ==
    /\ [](\A s \in Sessions :
             endCause[s] = "openfail" =>
                /\ cbCalls[s] = 0
                /\ stream[s] = "none"
                /\ tpc[s] \in {"finally", "done"})
    /\ [][\A s \in Sessions :
             /\ (endCause'[s] = "openfail" /\ endCause[s] # "openfail")
                => UNCHANGED <<pc, result>>
             /\ (endCause[s] = "openfail" /\ tpc[s] = "finally" /\ tpc'[s] = "done")
                => ~recording']_vars

\* start() has returned normally, the session it created has failed to open
\* the device and has ended, and the recorder is idle
C15_Witness ==
    /\ nsessions = 1
    /\ endCause[1] = "openfail" /\ tpc[1] = "done" /\ cbCalls[1] = 0
    /\ pc[Hotkey] = "idle" /\ result[Hotkey] = "started"
    /\ ~recording

\* C16: a read error ends the capture loop although the stop flag is not
\* set; the session then invokes the completion callback once if at least one
\* chunk was read, and not at all if none was.
C16_ReadError ==
    [][\A s \in Sessions :
          /\ (endCause'[s] = "error" /\ endCause[s] # "error")
             => ~stop_flag /\ tpc[s] = "loop" /\ tpc'[s] = "close"
          /\ (tpc[s] = "deliver" /\ endCause[s] = "error" /\ tpc'[s] # "deliver")
             => IF frames[s] > 0
                  THEN tpc'[s] = "callback" /\ cbCalls'[s] = cbCalls[s] + 1
                  ELSE tpc'[s] = "finally" /\ cbCalls'[s] = cbCalls[s]]_vars

\* a session that nobody stopped has read a chunk, hit a read error, and
\* is delivering what it read
C16_Witness ==
    \E s \in Sessions :
        /\ endCause[s] = "error" /\ tpc[s] = "callback"
        /\ frames[s] = MaxFrames /\ cbCalls[s] = 1
        /\ ~stopReq[s] /\ ~stop_flag

\* C17: when transcribe() returns the empty string, on_recording_complete
\* reports one error, "No text transcribed", injects nothing and reports no
\* transcription.
C17_EmptyTranscription ==
    transcript = <<"return", <<>>>> =>
        /\ errors = <<"No text transcribed">>
        /\ injected = <<>>
        /\ completed = <<>>
        /\ steps = <<"transcribe", "on_error">>

\* a recording was transcribed to nothing and the UI got the error event
C17_Witness ==
    /\ transcript = <<"return", <<>>>>
    /\ errors = <<"No text transcribed">>
    /\ ui_log # <<>> /\ ui_log[Len(ui_log)] = "error"

\* C18: when transcribe() raises, on_recording_complete catches the
\* exception: it reports one error whose message contains "Transcription
\* error", injects nothing, reports no transcription, and returns normally
\* to the capture thread.
C18_TranscriptionRaises ==
    transcript[1] = "raise" =>
        /\ errors = <<"Transcription error">>
        /\ injected = <<>>
        /\ completed = <<>>
        /\ steps = <<"transcribe", "on_error">>

\* the transcription raised in the capture thread of a session, and the
\* thread went on to end the session
C18_Witness ==
    /\ transcript[1] = "raise"
    /\ errors = <<"Transcription error">>
    /\ \E s \in Sessions : cbOf[s] = AppCallback /\ tpc[s] = "done" /\ cbCalls[s] = 1
    /\ ~recording

\* C19: when transcribe() returns a non-empty text, on_recording_complete
\* calls transcribe, normalize_text, inject_text and on_transcription_complete
\* in this order; the injector gets the normalized text, the UI gets the
\* same text, once, and no error is reported.
C19_PipelineOrder ==
    (transcript[1] = "return" /\ transcript[2] # <<>>) =>
        /\ steps = <<"transcribe", "normalize_text", "inject_text",
                     "on_transcription_complete">>
        /\ injected = <<normalize_text(transcript[2])>>
        /\ completed = injected
        /\ errors = <<>>

\* a transcription that normalize_text changes was injected in its
\* normalized form
C19_Witness ==
    /\ transcript = <<"return", <<"a", ".", "b">>>>
    /\ injected = <<(<<"a", ".", " ", "b">>)>>
    /\ completed = injected
    /\ ui_log[Len(ui_log)] = "transcription_complete"

\* C20: the stream of a session is closed before its callback is invoked and
\* before is_recording() becomes false: no session's stream is open while
\* is_recording() is false or while the session's callback runs.
C20_StreamClosedWhenIdle ==
    \A s \in Sessions :
        /\ stream[s] = "open" => recording
        /\ tpc[s] \in {"callback", "finally", "done"} => stream[s] # "open"

\* C21: the double-tap detector ignores every release event and every press
\* of a key other than the tracked one: such an event leaves last_press_time
\* and the active flag as they were and invokes no callback.
C21_ReleaseIgnored ==
    [][(kseq' # kseq /\ (kev'[1] = "release" \/ kev'[2] # TapKey)) =>
          /\ UNCHANGED <<last_press_time, dc_is_recording>>
          /\ kev'[3] = 0]_vars

\* the tracked key was released while the detector is active, within the
\* window of its last press
C21_Witness ==
    /\ kev = <<"release", TapKey, 0>>
    /\ dc_is_recording
    /\ last_press_time # 0 /\ clock - last_press_time < DoubleWindow

\* ------------------------------------------------------------ text claims
\* the marks that are in one class only, and the characters in no class
OnlyOpening == OpeningMarks \ ClosingMarks
OnlyClosing == ClosingMarks \ OpeningMarks
Quotes      == OpeningMarks \cap ClosingMarks
Letters     == TextChars \ (Whitespace \cup Punctuation \cup OpeningMarks \cup ClosingMarks)

\* the positions where a maximal run of space characters begins
SpaceRuns(t) == {i \in 1..Len(t) : t[i] = " " /\ (i = 1 \/ t[i - 1] # " ")}

\* the first position after i that holds no space character (0: none)
AfterRun(t, i) ==
    LET J == {j \in (i + 1)..Len(t) : t[j] # " "}
    IN  IF J = {} THEN 0 ELSE CHOOSE j \in J : \A k \in J : j <= k

\* the runs of spaces that stand between a character of L and one of R
RunsBetween(t, L, R) ==
    {i \in SpaceRuns(t) : /\ i > 1
                          /\ t[i - 1] \in L
                          /\ AfterRun(t, i) # 0
                          /\ t[AfterRun(t, i)] \in R}

NoDoubleSpace(t) == \A i \in 1..(Len(t) - 1) : ~(t[i] = " " /\ t[i + 1] = " ")

\* C22 as stated: every run of N >= 1 spaces of the input is one space of
\* the result (the result has no run of two spaces and at least as many
\* runs as the input).
C22_EveryRunToOne ==
    text_phase = "normalized" =>
        /\ NoDoubleSpace(text_out)
        /\ Cardinality(SpaceRuns(text_out)) >= Cardinality(SpaceRuns(text_in))

\* C22 amended: every run of N >= 1 spaces between two letters is exactly one
\* space between them in the result, and the result has no run of two
\* spaces; the runs at the ends, between a letter and a following
\* punctuation or closing mark, and between an opening mark and a following
\* letter are not kept.
C22_WordRunsToOne ==
    text_phase = "normalized" =>
        /\ NoDoubleSpace(text_out)
        /\ Cardinality(RunsBetween(text_out, Letters, Letters))
              = Cardinality(RunsBetween(text_in, Letters, Letters))
        /\ RunsBetween(text_out, Letters, Punctuation \cup ClosingMarks) = {}
        /\ RunsBetween(text_out, OpeningMarks, Letters) = {}
        /\ (text_out # <<>> => text_out[1] # " " /\ text_out[Len(text_out)] # " ")

C22_Witness ==
    /\ text_phase = "normalized"
    /\ text_in = <<"a", " ", " ", " ", "a">>
    /\ text_out = <<"a", " ", "a">>

\* C23: normalize_text is idempotent: applied to its own result it returns
\* that result, for every text over the alphabet.
C23_Idempotent ==
    text_phase = "renormalized" => text_again = text_out

C23_Witness ==
    /\ text_phase = "renormalized"
    /\ text_in = <<"a", "\t", "\t", ".", "a">>
    /\ text_out = <<"a", ".", " ", "a">>
    /\ text_again = text_out

\* the example of the quote rule
QuoteExample ==
    <<"T", "e", "x", "t", " ", "w", "i", "t", "h", " ", "\"", " ",
      "q", "u", "o", "t", "e", "s", " ", "\"">>
QuoteExampleResult ==
    <<"T", "e", "x", "t", " ", "w", "i", "t", "h", "\"",
      "q", "u", "o", "t", "e", "s", "\"">>

\* C24: in the result no whitespace stands immediately before or after a
\* quote, whether it opens or closes; none stands after ( or [ and none
\* before ) or ]; the space between a letter and a following ( or [, and
\* between ) or ] and a following letter, is kept.
C24_QuotesBothSides ==
    /\ normalize_text(QuoteExample) = QuoteExampleResult
    /\ text_phase = "normalized" =>
        /\ \A i \in 1..Len(text_out) :
              /\ (text_out[i] \in ClosingMarks /\ i > 1) => ~IsSpace(text_out[i - 1])
              /\ (text_out[i] \in OpeningMarks /\ i < Len(text_out)) =>
                     ~IsSpace(text_out[i + 1])
        /\ Cardinality(RunsBetween(text_out, Letters, OnlyOpening))
              = Cardinality(RunsBetween(text_in, Letters, OnlyOpening))
        /\ Cardinality(RunsBetween(text_out, OnlyClosing, Letters))
              = Cardinality(RunsBetween(text_in, OnlyClosing, Letters))

C24_Witness ==
    /\ text_phase = "normalized"
    /\ text_in = <<"a", " ", "\"", " ", "a">>
    /\ text_out = <<"a", "\"", "a">>

\* ------------------------------------------------------- injector claims
\* the characters of the typing calls made so far
RECURSIVE Typed(_)
Typed(calls) ==
    IF calls = <<>> THEN <<>>
    ELSE Append(Typed(SubSeq(calls, 1, Len(calls) - 1)), calls[Len(calls)][1])

\* C25: the per-character injector makes one typing call per character, in
\* text order: while it runs the calls are the characters taken so far, and
\* when it has returned they are the whole text (none for the empty text); a
\* failed call does not end the injection, and nothing propagates.
C25_OneCallPerCharacter ==
    /\ py_pc \in {"typing", "returned"}
    /\ Typed(py_calls) = SubSeq(inj_text, 1, py_pos)
    /\ py_pc = "returned" => /\ Len(py_calls) = Len(inj_text)
                              /\ Typed(py_calls) = inj_text

\* "Hi" with a failure on the first character: the second is still typed
C25_Witness ==
    /\ py_pc = "returned"
    /\ inj_text = <<"H", "i">>
    /\ py_calls = <<<<"H", "raises">>, <<"i", "typed">>>>

\* C26: the whole-string injector runs the command exactly once for a
\* non-empty text, with the whole text as its argument, and never for the
\* empty text; whatever the outcome of the command, inject_text returns.
C26_OneCommandPerText ==
    /\ ydo_pc \in {"called", "returned"}
    /\ ydo_pc = "called" => ydo_calls = <<>>
    /\ ydo_pc = "returned" =>
          /\ inj_text = <<>> => ydo_calls = <<>>
          /\ inj_text # <<>> => /\ Len(ydo_calls) = 1
                                /\ ydo_calls[1][1] = inj_text

C26_Witness ==
    /\ ydo_pc = "returned"
    /\ inj_text = <<"H", "i">>
    /\ ydo_calls = <<<<inj_text, "exit 1">>>>

\* ---------------------------------------------------- transcriber claims
\* C27: transcribe(audio, code) gives the model the language name of the
\* table for the code ("Spanish" for "es") and no language when the code is
\* None, empty or not in the table; it returns the text of the first result
\* without the whitespace at its ends, and the empty string when the model
\* returns no results.
C27_LanguageName ==
    q_pc = "returned" =>
        /\ q_language = "es" => q_passed = "Spanish"
        /\ q_language \in DOMAIN LANGUAGE_MAP => q_passed = LANGUAGE_MAP[q_language]
        /\ q_language \notin DOMAIN LANGUAGE_MAP => q_passed = NoneStr
        /\ q_results = <<>> => q_returned = <<>>
        /\ q_results # <<>> =>
              /\ q_returned = Strip(q_results[1])
              /\ q_returned # <<>> => /\ ~IsSpace(q_returned[1])
                                      /\ ~IsSpace(q_returned[Len(q_returned)])

C27_Witness ==
    /\ q_pc = "returned"
    /\ q_language = "es"
    /\ q_passed = "Spanish"
    /\ q_results = <<<<" ", "a", " ">>>>
    /\ q_returned = <<"a">>

\* ----------------------------------------------------- conversion claims
\* C28: every buffer given to the completion callback is non-empty and each
\* of its samples is s / 32768 for the signed 16-bit value s of the two
\* bytes read, so it lies in [-1, 1].
C28_SamplesInRange ==
    \A b \in 1..Len(s_delivered) :
        /\ Len(s_delivered[b]) > 0
        /\ Len(s_delivered[b]) * 2 = Len(Join(s_frames))
        /\ \A i \in 1..Len(s_delivered[b]) :
              LET num == s_delivered[b][i][1]
                  den == s_delivered[b][i][2]
                  raw == Join(s_frames)[2 * i - 1] + 256 * Join(s_frames)[2 * i]
              IN  /\ den = SampleScale
                  /\ num \in -32768..32767
                  /\ (num - raw) % 65536 = 0
                  /\ -den <= num /\ num <= den

\* the two extremes, -1 and 32767 / 32768, delivered in one buffer
C28_Witness ==
    /\ s_pc = "done"
    /\ s_frames = <<<<0, 128>>, <<255, 127>>>>
    /\ s_delivered = <<<<<<-32768, SampleScale>>, <<32767, SampleScale>>>>>>

\* ------------------------------------------------------ configuration claims
\* C29: the configuration create_default_config(max_time=t) returns has
\* max_recording_time = t (None for None), whatever the platform.
C29_MaxTimeOverride ==
    c_pc = "returned" => c_config.max_recording_time = c_args.max_time

\* ------------------------------------------------------ coordinator claims
\* C30: whenever on_start_recording has reached recorder.start(), the
\* recorder is fully stopped (no capture thread is alive and the recording
\* flag is false), and no call of the hotkey handler ends with the
\* RuntimeError of start().
C30_StartOnlyWhenStopped ==
    /\ pc[Hotkey] = "start_check" =>
          /\ ~recording
          /\ \A s \in Sessions : ~Live(s)
    /\ result[Hotkey] # "RuntimeError"

\* C38: the result of normalize_text on a non-empty text neither begins nor
\* ends with whitespace and never holds two consecutive spaces.
C38_NoOuterNoDoubleSpace ==
    (text_phase = "normalized" /\ text_in # <<>>) =>
        /\ text_out # <<>> => /\ ~IsSpace(text_out[1])
                              /\ ~IsSpace(text_out[Len(text_out)])
        /\ \A i \in 1..(Len(text_out) - 1) :
              ~(text_out[i] = " " /\ text_out[i + 1] = " ")

\* whitespace at both ends and a run of two spaces inside
C38_Witness ==
    /\ text_phase = "normalized"
    /\ text_in = <<"\t", "a", " ", " ", "a">>
    /\ text_out = <<"a", " ", "a">>

\* C33: the press that fired the stop event is not the first tap of a new
\* double-tap: the next press of the tracked key after a stop press fires
\* nothing and leaves the detector inactive.
C33_StopPressNotFirstTap ==
    [][(kseq' # kseq /\ kev'[1] = "press" /\ kev'[2] = TapKey /\ prevFired = "stop") =>
          /\ ~dc_is_recording'
          /\ kev'[3] = 0]_vars

\* C31: stop() run by the auto-stop timer thread and by another caller at
\* once: no call ends in an exception (the handle is still there when join
\* is called on it), and a call that got past the recording test returns
\* only with the capture thread ended and the handle cleared.
C31_ConcurrentStopSafe ==
    [][\A p \in Procs :
         /\ (pc[p] = "stop_join" /\ pc'[p] # pc[p]) => record_thread # None
         /\ (pc[p] \in {"stop_test", "stop_join", "stop_wait"} /\ pc'[p] = Rest(p)) =>
               /\ record_thread' = None
               /\ \A s \in Sessions : stopReq[s] => tpc'[s] = "done"]_vars

\* C32: the UI receives the lifecycle events of every utterance in order:
\* recording-started, recording-stopped, then one of transcription-complete
\* and error; a final event is reported only after the recording-stopped
\* event of its session.
C32_LifecycleOrder ==
    \A i \in 1..Len(ui_log) :
        /\ ui_log[i] \in {"transcription_complete", "error"} =>
              /\ i >= 3
              /\ ui_log[i - 1] = "recording_stop"
              /\ ui_log[i - 2] = "recording_start"
        /\ ui_log[i] = "recording_stop" =>
              /\ i >= 2
              /\ ui_log[i - 1] = "recording_start"
        /\ ui_log[i] = "recording_start" =>
              \/ i = 1
              \/ ui_log[i - 1] \in {"transcription_complete", "error"}

C35_OneCallbackAtATime ==
    Cardinality({t \in DevThreads : d_pc[t] = "callback"}) <= 1

\* the combo is complete on two devices: one thread runs the callback, the
\* other waits for the lock
C35_Witness ==
    \E t, u \in DevThreads :
        /\ t # u
        /\ d_pc[t] = "callback" /\ d_lock = t
        /\ d_pc[u] = "lock"

\* C36: once stop() has returned, and until start() is called again, no
\* invocation of on_hotkey begins or is in progress.
C36_QuietAfterStop ==
    lsnResult = <<"evdev", "stop", "stopped">> =>
        \A t \in DevThreads : d_pc[t] # "callback"

\* C37: at most one process holds the instance lock; every process that is
\* past the acquisition holds it; a process that found the lock held has
\* exited with status 1 without creating DictationApp; a process that has
\* exited, by whatever path, holds the lock no longer.
C37_SingleInstance ==
    /\ Cardinality(lock_holders) <= 1
    /\ \A p \in MainProcs :
          /\ main_pc[p] \in {"parse", "create", "run", "finally"} => p \in lock_holders
          /\ lock_refused[p] => /\ main_pc[p] = "exited"
                                /\ exit_status[p] = "1"
                                /\ ~app_created[p]
          /\ main_pc[p] \in {"none", "exited"} => p \notin lock_holders

\* one process was killed while it ran the application, a second was refused
\* while the first held the lock, a third got the lock afterwards
C37_Witness ==
    \E p, q, r \in MainProcs :
        /\ exit_status[p] = "killed" /\ app_created[p]
        /\ lock_refused[q] /\ exit_status[q] = "1"
        /\ lock_holders = {r} /\ main_pc[r] = "run"

====
